---------------------------- MODULE Spec2Model ----------------------------
(***************************************************************************)
(* A model of package mpcformat (soniakeys/mpcformat): the 80-column       *)
(* observation decoder (obs80.go) and the two-result ArcSplitter           *)
(* (unnamed/part_001).                                                     *)
(*                                                                         *)
(* Lines are TLA+ strings, sliced by column exactly as the Go code slices  *)
(* them: Go's s[i:j] is SubSeq(s, i+1, j), Go's s[i] is SubSeq(s,i+1,i+1). *)
(*                                                                         *)
(* A float64 is modelled by an exact decimal [i, f, e] standing for        *)
(* i + f / 10^e with 0 <= f < 10^e and no trailing zero in f, so equal     *)
(* numbers have equal representations.  The decimal strings of an          *)
(* 80-column record are far shorter than float64's 15 significant digits,  *)
(* so the comparisons the code makes (==, <=) agree with the exact ones.   *)
(***************************************************************************)
EXTENDS Integers, Sequences, FiniteSets, TLC

(***************************************************************************)
(* Bounds of the model.                                                    *)
(***************************************************************************)
\* longest input stream, in lines
MaxLines == 4
\* calls of the split function made after the stream's lines have run out
MaxExtraCalls == 2

(***************************************************************************)
(* strings and strconv                                                     *)
(***************************************************************************)
\* Go's s[i], 0-based
At(str, i) == SubSeq(str, i + 1, i + 1)

\* Go's s[i:j], 0-based, j exclusive
Slice(str, i, j) == SubSeq(str, i + 1, j)

\* Go's s[i:], 0-based
SliceFrom(str, i) == SubSeq(str, i + 1, Len(str))

IsDigit(c) == \E k \in 1..10 : SubSeq("0123456789", k, k) = c

DigitVal(c) == (CHOOSE k \in 1..10 : SubSeq("0123456789", k, k) = c) - 1

AllDigits(str) == \A k \in 1..Len(str) : IsDigit(SubSeq(str, k, k))

RECURSIVE DigitsValue(_, _)
\* the value of a string of digits, most significant first
DigitsValue(str, acc) ==
    IF str = "" THEN acc
    ELSE DigitsValue(Tail(str), 10 * acc + DigitVal(Head(str)))

RECURSIVE TrimLeft(_)
TrimLeft(str) ==
    IF str # "" /\ Head(str) = " " THEN TrimLeft(Tail(str)) ELSE str

RECURSIVE TrimRight(_)
TrimRight(str) ==
    IF str # "" /\ SubSeq(str, Len(str), Len(str)) = " "
    THEN TrimRight(SubSeq(str, 1, Len(str) - 1))
    ELSE str

\* strings.TrimSpace, on lines whose only white space is the blank
TrimSpace(str) == TrimRight(TrimLeft(str))

\* strconv.Atoi: an optional sign and at least one decimal digit
Atoi(str) ==
    LET signed == str # "" /\ Head(str) \in {"+", "-"}
        digits == IF signed THEN Tail(str) ELSE str
    IN  IF digits = "" \/ ~AllDigits(digits)
        THEN [ok |-> FALSE, v |-> 0]
        ELSE [ok |-> TRUE,
              v  |-> IF signed /\ Head(str) = "-"
                     THEN 0 - DigitsValue(digits, 0)
                     ELSE DigitsValue(digits, 0)]

RECURSIVE Pow10(_)
Pow10(n) == IF n = 0 THEN 1 ELSE 10 * Pow10(n - 1)

RECURSIVE Norm(_, _, _)
\* the decimal i + f/10^e without trailing zeros
Norm(i, f, e) ==
    IF e > 0 /\ f % 10 = 0 THEN Norm(i, f \div 10, e - 1)
    ELSE [i |-> i, f |-> f, e |-> e]

IntDec(n) == [i |-> n, f |-> 0, e |-> 0]

Zero == IntDec(0)

DecNeg(x) ==
    IF x.f = 0 THEN IntDec(0 - x.i)
    ELSE [i |-> 0 - x.i - 1, f |-> Pow10(x.e) - x.f, e |-> x.e]

DecAdd(x, y) ==
    LET e  == IF x.e > y.e THEN x.e ELSE y.e
        fs == x.f * Pow10(e - x.e) + y.f * Pow10(e - y.e)
    IN  Norm(x.i + y.i + fs \div Pow10(e), fs % Pow10(e), e)

DecLess(x, y) ==
    LET e == IF x.e > y.e THEN x.e ELSE y.e
    IN  \/ x.i < y.i
        \/ x.i = y.i /\ x.f * Pow10(e - x.e) < y.f * Pow10(e - y.e)

FirstDot(str) ==
    IF \E k \in 1..Len(str) : SubSeq(str, k, k) = "."
    THEN CHOOSE k \in 1..Len(str) :
            /\ SubSeq(str, k, k) = "."
            /\ \A j \in 1..(k - 1) : SubSeq(str, j, j) # "."
    ELSE 0

\* strconv.ParseFloat(str, 64) on decimal notation: an optional sign, digits
\* with at most one point, at least one digit.  (Exponents, hexadecimal,
\* underscores, "Inf" and "NaN" do not occur in the lines of this model.)
ParseFloat(str) ==
    LET signed == str # "" /\ Head(str) \in {"+", "-"}
        body   == IF signed THEN Tail(str) ELSE str
        dot    == FirstDot(body)
        ip     == IF dot = 0 THEN body ELSE SubSeq(body, 1, dot - 1)
        fp     == IF dot = 0 THEN "" ELSE SubSeq(body, dot + 1, Len(body))
        good   == AllDigits(ip) /\ AllDigits(fp) /\ Len(ip) + Len(fp) > 0
        mag    == Norm(DigitsValue(ip, 0), DigitsValue(fp, 0), Len(fp))
    IN  IF ~good THEN [ok |-> FALSE, v |-> Zero]
        ELSE [ok |-> TRUE,
              v  |-> IF signed /\ Head(str) = "-" THEN DecNeg(mag) ELSE mag]

\* Go's integer division, which truncates toward zero
Quo(x, y) == IF x >= 0 THEN x \div y ELSE 0 - ((0 - x) \div y)

(***************************************************************************)
(* obs80.go: ParseObs80Date                                                *)
(***************************************************************************)
flookup == <<0, 306, 337, 0, 31, 61, 92, 122, 153, 184, 214, 245, 275>>

\* ParseObs80Date with divisions that round down
ParseObs80Date_Floor(d) ==
    IF Len(d) < 10 THEN [res |-> "fail", mjd |-> Zero]
    ELSE
    LET year  == Atoi(Slice(d, 0, 4))
        month == Atoi(Slice(d, 5, 7))
        day   == ParseFloat(TrimSpace(SliceFrom(d, 8)))
        z     == year.v + ((month.v - 14) \div 12)
        m     == flookup[month.v + 1] + 365 * z + (z \div 4) - (z \div 100)
                    + (z \div 400) - 678882
    IN  IF ~year.ok THEN [res |-> "fail", mjd |-> Zero]
        ELSE IF ~month.ok THEN [res |-> "fail", mjd |-> Zero]
        ELSE IF ~day.ok THEN [res |-> "fail", mjd |-> Zero]
        ELSE IF month.v < 0 \/ month.v > 12 THEN [res |-> "panic", mjd |-> Zero]
        ELSE [res |-> "ok", mjd |-> DecAdd(IntDec(m), day.v)]

\* ParseObs80Date without the century terms of the leap year rule
ParseObs80Date_NoCentury(d) ==
    IF Len(d) < 10 THEN [res |-> "fail", mjd |-> Zero]
    ELSE
    LET year  == Atoi(Slice(d, 0, 4))
        month == Atoi(Slice(d, 5, 7))
        day   == ParseFloat(TrimSpace(SliceFrom(d, 8)))
        z     == year.v + Quo(month.v - 14, 12)
        m     == flookup[month.v + 1] + 365 * z + Quo(z, 4) - 678882
    IN  IF ~year.ok THEN [res |-> "fail", mjd |-> Zero]
        ELSE IF ~month.ok THEN [res |-> "fail", mjd |-> Zero]
        ELSE IF ~day.ok THEN [res |-> "fail", mjd |-> Zero]
        ELSE IF month.v < 0 \/ month.v > 12 THEN [res |-> "panic", mjd |-> Zero]
        ELSE [res |-> "ok", mjd |-> DecAdd(IntDec(m), day.v)]

\* ParseObs80Date without strings.TrimSpace on the day
ParseObs80Date_NoTrim(d) ==
    IF Len(d) < 10 THEN [res |-> "fail", mjd |-> Zero]
    ELSE
    LET year  == Atoi(Slice(d, 0, 4))
        month == Atoi(Slice(d, 5, 7))
        day   == ParseFloat(SliceFrom(d, 8))
        z     == year.v + Quo(month.v - 14, 12)
        m     == flookup[month.v + 1] + 365 * z + Quo(z, 4) - Quo(z, 100)
                    + Quo(z, 400) - 678882
    IN  IF ~year.ok THEN [res |-> "fail", mjd |-> Zero]
        ELSE IF ~month.ok THEN [res |-> "fail", mjd |-> Zero]
        ELSE IF ~day.ok THEN [res |-> "fail", mjd |-> Zero]
        ELSE IF month.v < 0 \/ month.v > 12 THEN [res |-> "panic", mjd |-> Zero]
        ELSE [res |-> "ok", mjd |-> DecAdd(IntDec(m), day.v)]

\* The result is [res, mjd]: res = "ok" for ok = true, "fail" for
\* ok = false, "panic" for the index-out-of-range panic of flookup[month].
ParseObs80Date(d) ==
    IF Len(d) < 10 THEN [res |-> "fail", mjd |-> Zero]
    ELSE
    LET year  == Atoi(Slice(d, 0, 4))
        month == Atoi(Slice(d, 5, 7))
        day   == ParseFloat(TrimSpace(SliceFrom(d, 8)))
        z     == year.v + Quo(month.v - 14, 12)
        m     == flookup[month.v + 1] + 365 * z + Quo(z, 4) - Quo(z, 100)
                    + Quo(z, 400) - 678882
    IN  IF ~year.ok THEN [res |-> "fail", mjd |-> Zero]
        ELSE IF ~month.ok THEN [res |-> "fail", mjd |-> Zero]
        ELSE IF ~day.ok THEN [res |-> "fail", mjd |-> Zero]
        ELSE IF month.v < 0 \/ month.v > 12 THEN [res |-> "panic", mjd |-> Zero]
        ELSE [res |-> "ok", mjd |-> DecAdd(IntDec(m), day.v)]


(***************************************************************************)
(* observation.ParallaxMap: the map the tests read from ocdSample.  A      *)
(* non-nil *ParallaxConst is identified by the code of its line; 248       *)
(* (zero constants) and 250 (blank constants) map to nil.                  *)
(***************************************************************************)
NilPar == "nil"

pMap ==
    [c \in {"000", "248", "250", "644", "703", "E12"} |->
        IF c \in {"248", "250"} THEN NilPar ELSE c]

(***************************************************************************)
(* observation.VObs values.  One record shape serves *SiteObs and *SatObs: *)
(* kind tells them apart, Par is read only of a SiteObs, Sat and Offset    *)
(* only of a SatObs.  RA is kept in seconds of time and Dec in seconds of  *)
(* arc: the code multiplies them by the constants pi/(12*3600) and         *)
(* pi/(180*3600).  Offset.unit tells whether ParseSat2 multiplied the      *)
(* three components by sf = 1/149.59787e6.                                 *)
(***************************************************************************)
NilObs == [kind |-> "nil"]

ZeroCart == [X |-> Zero, Y |-> Zero, Z |-> Zero, unit |-> "asis"]

NilError == [type |-> "nil", msg |-> ""]

\* errors.New / fmt.Errorf: an error that is no ArcError
NewError(msg) == [type |-> "error", msg |-> msg]

(***************************************************************************)
(* obs80.go: ParseObs80.  The result is [res, desig, o, err] with res =    *)
(* "ok" (err = nil), "err" (o = nil) or "panic" (ParseObs80Date panicked). *)
(***************************************************************************)
\* BandCorrected taking a blank band for V
BandCorrected_BlankIsV(mag, band) ==
    IF band = "V" \/ band = " " THEN mag
    ELSE IF band = "B" THEN DecAdd(mag, DecNeg(ParseFloat(".8").v))
    ELSE DecAdd(mag, ParseFloat(".4").v)

\* the band correction of the magnitude mag read from the non-empty field
BandCorrected(mag, band) ==
    IF band = "V" THEN mag
    ELSE IF band = "B" THEN DecAdd(mag, DecNeg(ParseFloat(".8").v))
    ELSE DecAdd(mag, ParseFloat(".4").v)

\* IsSatObs without the test of column 15
IsSatObs_ParOnly(par, c15) == par = NilPar

\* par == nil || line80[14] == 'S'
IsSatObs(par, c15) == par = NilPar \/ c15 = "S"

ParseObs80(line80, ocm) ==
    IF Len(line80) # 80
    THEN [res |-> "err", desig |-> "", o |-> NilObs,
          err |-> NewError("ParseObs80 requires 80 characters")]
    ELSE
    LET dsg  == TrimSpace(Slice(line80, 0, 12))
        date == ParseObs80Date(Slice(line80, 15, 32))
        rah  == Atoi(TrimSpace(Slice(line80, 32, 34)))
        ram  == Atoi(TrimSpace(Slice(line80, 35, 37)))
        ras  == ParseFloat(TrimSpace(Slice(line80, 38, 44)))
        decg == At(line80, 44)
        decd == Atoi(TrimSpace(Slice(line80, 45, 47)))
        decm == Atoi(TrimSpace(Slice(line80, 48, 50)))
        decs == ParseFloat(TrimSpace(Slice(line80, 51, 56)))
        ts   == TrimSpace(Slice(line80, 65, 70))
        magp == ParseFloat(ts)
        band == At(line80, 70)
        mag  == IF Len(ts) = 0 THEN Zero ELSE BandCorrected(magp.v, band)
        c    == Slice(line80, 77, 80)
        par  == ocm[c]
        ra   == DecAdd(IntDec((rah.v * 60 + ram.v) * 60), ras.v)
        dec  == DecAdd(IntDec((decd.v * 60 + decm.v) * 60), decs.v)
        fail(msg) == [res |-> "err", desig |-> dsg, o |-> NilObs,
                      err |-> NewError(msg)]
    IN  IF date.res = "panic"
        THEN [res |-> "panic", desig |-> dsg, o |-> NilObs, err |-> NilError]
        ELSE IF date.res = "fail" THEN fail("ParseObs80: Invalid date")
        ELSE IF ~(rah.ok /\ ram.ok /\ ras.ok) THEN fail("ParseObs80: Invalid RA")
        ELSE IF ~(decd.ok /\ decm.ok /\ decs.ok)
             THEN fail("ParseObs80: Invalid Dec")
        ELSE IF Len(ts) # 0 /\ ~magp.ok THEN fail("ParseObs80: Invalid mag")
        ELSE IF c \notin DOMAIN ocm
             THEN [res |-> "err", desig |-> "", o |-> NilObs,
                   err |-> NewError("ParseObs80: Unknown observatory code")]
        ELSE [res   |-> "ok",
              desig |-> dsg,
              err   |-> NilError,
              o     |-> [kind   |-> IF IsSatObs(par, At(line80, 14))
                                    THEN "SatObs" ELSE "SiteObs",
                         MJD    |-> date.mjd,
                         RA     |-> ra,
                         Dec    |-> IF decg = "-" THEN DecNeg(dec) ELSE dec,
                         VMag   |-> mag,
                         Qual   |-> c,
                         Par    |-> IF IsSatObs(par, At(line80, 14))
                                    THEN NilPar ELSE par,
                         Sat    |-> IF IsSatObs(par, At(line80, 14))
                                    THEN c ELSE "",
                         Offset |-> ZeroCart]]

(***************************************************************************)
(* obs80.go: parseMpcOffset and ParseSat2                                  *)
(***************************************************************************)
parseMpcOffset(off) ==
    LET v == ParseFloat(TrimSpace(SliceFrom(off, 1)))
    IN  IF ~v.ok THEN [ok |-> FALSE, v |-> Zero]
        ELSE IF At(off, 0) = "-" THEN [ok |-> TRUE, v |-> DecNeg(v.v)]
        ELSE IF At(off, 0) = "+" \/ At(off, 0) = " " THEN [ok |-> TRUE, v |-> v.v]
        ELSE [ok |-> FALSE, v |-> Zero]

\* ParseSat2 storing each offset as soon as it is parsed
ParseSat2_StoreEarly(line80, des1, s1) ==
    LET dsg   == TrimSpace(Slice(line80, 0, 12))
        date2 == ParseObs80Date(Slice(line80, 15, 32))
        x     == parseMpcOffset(Slice(line80, 34, 46))
        y     == parseMpcOffset(Slice(line80, 46, 58))
        z     == parseMpcOffset(Slice(line80, 58, 70))
        fail(msg) == [res |-> "err", s1 |-> s1, err |-> NewError(msg)]
    IN  IF dsg # des1 THEN fail("sat obs line 2 designation")
        ELSE IF date2.res = "panic"
             THEN [res |-> "panic", s1 |-> s1, err |-> NilError]
        ELSE IF date2.res = "fail" THEN fail("sat obs line 2 invalid date")
        ELSE IF date2.mjd # s1.MJD
             THEN fail("sat obs line 2 date different from line 1")
        ELSE IF Slice(line80, 77, 80) # s1.Sat THEN fail("sat obs line 2 obscode")
        ELSE IF ~x.ok THEN fail("sat obs line 2 invalid offset")
        ELSE IF ~y.ok \/ ~z.ok
             THEN [res |-> "err", s1 |-> [s1 EXCEPT !.Offset.X = x.v],
                   err |-> NewError("sat obs line 2 invalid offset")]
        ELSE [res |-> "ok",
              err |-> NilError,
              s1  |-> [s1 EXCEPT !.Offset =
                          [X |-> x.v, Y |-> y.v, Z |-> z.v,
                           unit |-> IF At(line80, 32) = "1"
                                    THEN "times_sf" ELSE "asis"]]]

\* The result is [res, s1, err]: res = "ok" with s1 updated, "err" with s1
\* as it was, or "panic" (ParseObs80Date panicked).
ParseSat2(line80, des1, s1) ==
    LET dsg   == TrimSpace(Slice(line80, 0, 12))
        date2 == ParseObs80Date(Slice(line80, 15, 32))
        x     == parseMpcOffset(Slice(line80, 34, 46))
        y     == parseMpcOffset(Slice(line80, 46, 58))
        z     == parseMpcOffset(Slice(line80, 58, 70))
        fail(msg) == [res |-> "err", s1 |-> s1, err |-> NewError(msg)]
    IN  IF dsg # des1 THEN fail("sat obs line 2 designation")
        ELSE IF date2.res = "panic"
             THEN [res |-> "panic", s1 |-> s1, err |-> NilError]
        ELSE IF date2.res = "fail" THEN fail("sat obs line 2 invalid date")
        ELSE IF date2.mjd # s1.MJD
             THEN fail("sat obs line 2 date different from line 1")
        ELSE IF Slice(line80, 77, 80) # s1.Sat THEN fail("sat obs line 2 obscode")
        ELSE IF ~x.ok THEN fail("sat obs line 2 invalid offset")
        ELSE IF ~y.ok THEN fail("sat obs line 2 invalid offset")
        ELSE IF ~z.ok THEN fail("sat obs line 2 invalid offset")
        ELSE [res |-> "ok",
              err |-> NilError,
              s1  |-> [s1 EXCEPT !.Offset =
                          [X |-> x.v, Y |-> y.v, Z |-> z.v,
                           unit |-> IF At(line80, 32) = "1"
                                    THEN "times_sf" ELSE "asis"]]]


(***************************************************************************)
(* The lines an input stream is made of.  obs, tcSatLine1 and tcSatLine2   *)
(* are the lines of obs80_test.go, o1 and short those of arc_test.go (the  *)
(* code 291 of o1 is not in pMap: an unknown observatory).  The others     *)
(* vary them: obsNext is a later observation of obs's object from site     *)
(* 644, o2 an observation of another object, satLine2Late a continuation   *)
(* line whose date differs from tcSatLine1's, obsMonth13 has month 13,     *)
(* blank is an empty line.                                                 *)
(***************************************************************************)
obs == "     K11Q14F  C2014 09 03.40285 02 53 00.70 +10 38 30.3          19.2 VqER031703"

obsNext == "     K11Q14F  C2014 09 03.41285 02 53 01.70 +10 38 31.3          19.3 VqER031644"

o2 == "     NE00199  C2007 02 09.24234 06 08 06.06 +43 13 26.2          20.1  c     703"

tcSatLine1 == "03620         S1996 08 30.51477 21 07 31.918-05 22 00.82                27764250"

tcSatLine2 == "03620         s1996 08 30.51477 1 -  344.3553 - 6919.1239 +  872.2948   27764250"

satLine2Late == "03620         s1996 08 30.51478 1 -  344.3553 - 6919.1239 +  872.2948   27764250"

o1 == "     NE00030  C2004 09 16.15206 16 13 11.57 +20 52 23.7          21.1 Vd     291"

obsMonth13 == "     K11Q14F  C2014 13 03.40285 02 53 00.70 +10 38 30.3          19.2 VqER031703"

short == "NE00030 C2004 09 16.15206 16 13 11.57 +20 52 23.7 21.1 V 291"

blank == ""

Lines ==
    <<obs, obsNext, o2, tcSatLine1, tcSatLine2, satLine2Late, o1, obsMonth13,
      short, blank>>

\* ParseObs80 of every line of Lines, computed once
Decoded == [k \in DOMAIN Lines |-> ParseObs80(Lines[k], pMap)]

(***************************************************************************)
(* unnamed/part_001: ArcSplitter.                                          *)
(*                                                                         *)
(* rObs     the stream: the lines the scanner will deliver (indices into   *)
(*          Lines) and how the source ends, "EOF" or "ReadErr" (a read     *)
(*          error; bufio.Scanner delivers the lines read before it first)  *)
(* s        the scanner: the number of lines delivered                     *)
(* a        the arc under construction; a.Obs lists references             *)
(* desig, o, err   the closure's carried values; o is a reference, 0 = nil *)
(* objs     the heap of observations: the observation decoded from the     *)
(*          k-th line of the stream is objs[k], so that a.Obs and o share  *)
(*          the object ParseSat2 updates                                   *)
(* results  history: what each call returned, (arc, err), with read, the   *)
(*          number of lines delivered by then, and atEnd, whether the call *)
(*          ended because the scanner had no more lines                    *)
(* panicked whether a call ended in a run-time panic                       *)
(***************************************************************************)
VARIABLES rObs, s, a, desig, o, err, objs, results, panicked

(***************************************************************************)
(* Calls of ParseObs80Date on its own.                                     *)
(*                                                                         *)
(* dargs    the dates the function is called with: dargs[1], and           *)
(*          dargs[2], the date it is compared with (the same date with     *)
(*          the day zero-padded, or the next calendar day)                 *)
(* dates    what the calls returned, NotCalled before the call             *)
(***************************************************************************)
VARIABLES dargs, dates

(***************************************************************************)
(* Calls of ParseObs80 on its own.                                         *)
(*                                                                         *)
(* largs    the fields of the line the function is called with             *)
(* parsed   what the call returned, NotParsed before the call              *)
(***************************************************************************)
VARIABLES largs, parsed

(***************************************************************************)
(* Calls of ParseSat2 on its own.                                          *)
(*                                                                         *)
(* sargs    the fields of the continuation line the function is called     *)
(*          with, after tcSatLine1 has been parsed                         *)
(* merged   what the call returned, NotMerged before the call              *)
(***************************************************************************)
VARIABLES sargs, merged

(***************************************************************************)
(* Calls of FindTrackletsIndex.                                            *)
(*                                                                         *)
(* ts       the observations the function is called with: ts[k] is the     *)
(*          observation of index k - 1, [mjd, observer], mjd in            *)
(*          thousandths of a day                                           *)
(* found    what the call returned: done = FALSE before the call, then     *)
(*          index, the list of tracklets, each a list of indices; isNil    *)
(*          tells a nil list from an empty one, and index is made by make, *)
(*          which never gives nil                                          *)
(***************************************************************************)
VARIABLES ts, found

(***************************************************************************)
(* A second call of FindTrackletsIndex.                                    *)
(*                                                                         *)
(* shuffled the observations of the second call: those of ts, in the same  *)
(*          or in another order                                            *)
(* again    what the second call returned, as found                        *)
(***************************************************************************)
VARIABLES shuffled, again

(***************************************************************************)
(* FindTrackletsIndex(ts) step by step, found being what it returns.       *)
(*                                                                         *)
(* groups     the map m: for each key the td appended under it             *)
(* rangeKeys  the keys "for _, t1 := range m" has still to take, in the    *)
(*            order it takes them                                          *)
(* frames     the calls of reduce and appendTl still to be made for the    *)
(*            key taken, the next one first: [op, set]                     *)
(* tlist      tl, the tk appended so far                                   *)
(* pos        "start" before the first loop, "range" in the second loop,   *)
(*            "returned" after the return, "panic" after a run-time panic  *)
(* lastReduce the last call of reduce: its argument set and the calls it   *)
(*            made, in order                                               *)
(***************************************************************************)
VARIABLES groups, rangeKeys, frames, tlist, pos, lastReduce

(***************************************************************************)
(* Split, running as a goroutine, and the goroutines that receive from its *)
(* channels.                                                               *)
(*                                                                         *)
(* iObs      the stream: lines, the lines ReadLine has delivered so far,   *)
(*           each the index of a line of SplitLines, and end, "open" while *)
(*           it delivers lines and then what it returned after them: "EOF",*)
(*           "error" (a read error) or "long" (isPrefix: a line too long)  *)
(* sp        Split's own state: n, the lines read; desig, o, des0, obuf,   *)
(*           its local variables (o is [isNil, k, ref, obs]: the line and  *)
(*           the observation decoded from it; an element of obuf likewise);*)
(*           at, where it stands: "loop", "sendArc" (in sendValid, at the  *)
(*           send on arcCh), "sendErr" (at the send on errCh), "final"     *)
(*           (after the loop), "close", "done", "panic"; after, what       *)
(*           follows the send on arcCh: "clear", "restart" or "close"      *)
(* arcCh     the channel of arcs: cap, its capacity; buf, the arcs sent    *)
(*           and not yet received; closed, how often it has been closed    *)
(* errCh     the channel of errors, likewise                               *)
(* consumer  the receivers: state "recv" while receiving from arcCh and    *)
(*           "done" after seeing it closed; got, the arcs received;        *)
(*           takesErr, whether a goroutine receives from errCh; errs, the  *)
(*           errors it received                                            *)
(* sent      every value sent so far, in order: [ch, msg, closed], closed  *)
(*           telling whether the channel was already closed                *)
(***************************************************************************)
VARIABLES iObs, sp, arcCh, errCh, consumer, sent

(***************************************************************************)
(* ReadObscodeDat (the reader of obscode.dat):                             *)
(* ocd       the text read from r, as the lines strings.Split cuts it into *)
(* pmap      what ReadObscodeDat returned: NotRead before the call, then   *)
(*           [res, err, m] with m the map from codes to parallax constants *)
(***************************************************************************)
VARIABLES ocd, pmap

(***************************************************************************)
(* The unmarshaller of the export format (obs80.go, boolFunc):             *)
(* data      the record handed to the function NewExportUnmarshaler made   *)
(*           for a struct with the bool fields NEO, Km, Seen, Crit and PHA *)
(* orbit     that struct: called tells whether the function has run        *)
(***************************************************************************)
VARIABLES data, orbit

splitVars == <<rObs, s, a, desig, o, err, objs, results, panicked>>

dateVars == <<dargs, dates>>

lineVars == <<largs, parsed>>

sat2Vars == <<sargs, merged>>

trackVars == <<ts, found>>

againVars == <<shuffled, again>>

stepVars == <<groups, rangeKeys, frames, tlist, pos, lastReduce>>

chanVars == <<iObs, sp, arcCh, errCh, consumer, sent>>

ocdVars == <<ocd, pmap>>

exportVars == <<data, orbit>>

vars == <<splitVars, dateVars, lineVars, sat2Vars, trackVars, againVars, stepVars, chanVars,
         ocdVars, exportVars>>

EOF == [type |-> "EOF", msg |-> "EOF"]

\* the error of the underlying reader: neither io.EOF nor an ArcError
ReadError == [type |-> "read", msg |-> "read error"]

\* ArcError{e}
ArcError(e) == [type |-> "ArcError", msg |-> e.msg]

\* the values of *observation.Arc a call returns, as seen at its return;
\* ptr tells which object the pointer returned points to: "nil", or "&a",
\* the variable a of ArcSplitter that the closure has captured
NilArc == [isNil |-> TRUE, ptr |-> "nil", Desig |-> "", Obs |-> <<>>, refs |-> <<>>]

\* a pointer to a copy of a made for the return
ArcOf_Copy(st) ==
    [isNil |-> FALSE,
     ptr   |-> "&copy",
     Desig |-> st.a.Desig,
     Obs   |-> [k \in 1..Len(st.a.Obs) |-> st.objs[st.a.Obs[k]]],
     refs  |-> st.a.Obs]

\* &a
ArcOf(st) ==
    [isNil |-> FALSE,
     ptr   |-> "&a",
     Desig |-> st.a.Desig,
     Obs   |-> [k \in 1..Len(st.a.Obs) |-> st.objs[st.a.Obs[k]]],
     refs  |-> st.a.Obs]

\* What one pass of the loop comes to: go = TRUE to go round again from
\* state st; otherwise the call ends in state st, returning (arc, e) or, with
\* panic = TRUE, not returning.  atEnd records that the call ended because
\* s.Scan() returned false.
Continue(st) ==
    [go |-> TRUE, st |-> st, arc |-> NilArc, e |-> NilError, panic |-> FALSE,
     atEnd |-> FALSE]

\* return &a, e
ReturnArc(st, e) ==
    [go |-> FALSE, st |-> st, arc |-> ArcOf(st), e |-> e, panic |-> FALSE,
     atEnd |-> FALSE]

\* return nil, e
ReturnNil(st, e) ==
    [go |-> FALSE, st |-> st, arc |-> NilArc, e |-> e, panic |-> FALSE,
     atEnd |-> FALSE]

Panic(st) ==
    [go |-> FALSE, st |-> st, arc |-> NilArc, e |-> NilError, panic |-> TRUE,
     atEnd |-> FALSE]

\* BreakArc forgetting the error when good observations are returned
BreakArc_DropError(st, e) ==
    IF Len(st.a.Obs) > 0
    THEN ReturnArc([st EXCEPT !.o = 0, !.err = NilError], NilError)
    ELSE ReturnArc([st EXCEPT !.o = 0, !.err = NilError], e)

\* BreakArc without "o = nil"
BreakArc_KeepO(st, e) ==
    IF Len(st.a.Obs) > 0
    THEN ReturnArc([st EXCEPT !.err = e], NilError)
    ELSE ReturnArc([st EXCEPT !.err = NilError], e)

\* break arc, with err = e: "there was a parse error"
BreakArc(st, e) ==
    IF Len(st.a.Obs) > 0
    THEN ReturnArc([st EXCEPT !.o = 0, !.err = e], NilError)
    ELSE ReturnArc([st EXCEPT !.o = 0, !.err = NilError], e)

\* Sat2Line adding the merged observation to the list once more
Sat2Line_Append(st, p) ==
    IF p.res = "panic" THEN Panic(st)
    ELSE IF p.res = "err" THEN BreakArc(st, p.err)
    ELSE Continue([st EXCEPT !.objs[st.o] = p.s1, !.a.Obs = Append(@, st.o)])

\* if err = ParseSat2(line, desig, s); err != nil { break arc }; continue
Sat2Line(st, p) ==
    IF p.res = "panic" THEN Panic(st)
    ELSE IF p.res = "err" THEN BreakArc(st, p.err)
    ELSE Continue([st EXCEPT !.objs[st.o] = p.s1])

\* if line[14] == 's' { ... }
SatLine(st, line) ==
    IF st.o = 0 \/ st.objs[st.o].kind # "SatObs"
    THEN BreakArc(st, ArcError(NewError(
            "space-based observation line 2 without line 1")))
    ELSE Sat2Line(st, ParseSat2(line, st.desig, st.objs[st.o]))

\* ObsLine without the case "desig == a.Desig": every observation is added
ObsLine_NoDesigCheck(st, p, ref) ==
    IF p.res = "panic" THEN Panic(st)
    ELSE IF p.res = "err"
    THEN BreakArc([st EXCEPT !.desig = p.desig], ArcError(p.err))
    ELSE IF Len(st.a.Obs) = 0
    THEN Continue([st EXCEPT !.desig = p.desig, !.o = ref, !.objs[ref] = p.o,
                             !.a = [Desig |-> p.desig, Obs |-> <<ref>>]])
    ELSE Continue([st EXCEPT !.desig = p.desig, !.o = ref, !.objs[ref] = p.o,
                             !.a.Obs = Append(@, ref)])

\* ObsLine ending the arc at every observation after the first
ObsLine_AlwaysBreak(st, p, ref) ==
    IF p.res = "panic" THEN Panic(st)
    ELSE IF p.res = "err"
    THEN BreakArc([st EXCEPT !.desig = p.desig], ArcError(p.err))
    ELSE IF Len(st.a.Obs) = 0
    THEN Continue([st EXCEPT !.desig = p.desig, !.o = ref, !.objs[ref] = p.o,
                             !.a = [Desig |-> p.desig, Obs |-> <<ref>>]])
    ELSE ReturnArc([st EXCEPT !.desig = p.desig, !.o = ref, !.objs[ref] = p.o],
                   NilError)

\* switch desig, o, err = ParseObs80(line, pMap); p is what ParseObs80
\* returned and ref the heap cell of its observation
ObsLine(st, p, ref) ==
    IF p.res = "panic" THEN Panic(st)
    ELSE IF p.res = "err"
    THEN BreakArc([st EXCEPT !.desig = p.desig], ArcError(p.err))
    ELSE IF Len(st.a.Obs) = 0
    THEN Continue([st EXCEPT !.desig = p.desig, !.o = ref, !.objs[ref] = p.o,
                             !.a = [Desig |-> p.desig, Obs |-> <<ref>>]])
    ELSE IF p.desig = st.a.Desig
    THEN Continue([st EXCEPT !.desig = p.desig, !.o = ref, !.objs[ref] = p.o,
                             !.a.Obs = Append(@, ref)])
    ELSE ReturnArc([st EXCEPT !.desig = p.desig, !.o = ref, !.objs[ref] = p.o],
                   NilError)

\* ScannedLine taking an empty line for the end of the stream
ScannedLine_EmptyIsEnd(st, k) ==
    IF Len(Lines[k]) = 0
    THEN IF Len(st.a.Obs) = 0
         THEN ReturnNil(st, EOF)
         ELSE ReturnArc([st EXCEPT !.err = EOF, !.o = 0], NilError)
    ELSE IF Len(Lines[k]) # 80
    THEN BreakArc(st, ArcError(NewError("observation line length, want 80")))
    ELSE IF At(Lines[k], 14) = "s"
    THEN SatLine(st, Lines[k])
    ELSE ObsLine(st, Decoded[k], st.s)

\* the line s.Text() gives after a successful s.Scan(): the k-th of Lines
ScannedLine(st, k) ==
    IF Len(Lines[k]) # 80
    THEN BreakArc(st, ArcError(NewError("observation line length, want 80")))
    ELSE IF At(Lines[k], 14) = "s"
    THEN SatLine(st, Lines[k])
    ELSE ObsLine(st, Decoded[k], st.s)

\* ScanEnded without "o = nil" at the end of input
ScanEnded_KeepO(st) ==
    IF rObs.end = "ReadErr"
    THEN ReturnNil([st EXCEPT !.err = ReadError], ReadError)
    ELSE IF Len(st.a.Obs) = 0
    THEN ReturnNil(st, EOF)
    ELSE ReturnArc([st EXCEPT !.err = EOF], NilError)

\* ScanEnded returning io.EOF whether or not observations have accumulated
ScanEnded_EOFFirst(st) ==
    IF rObs.end = "ReadErr"
    THEN ReturnNil([st EXCEPT !.err = ReadError], ReadError)
    ELSE ReturnNil(st, EOF)

\* ScanEnded without the test of s.Err()
ScanEnded_IgnoreErr(st) ==
    IF Len(st.a.Obs) = 0
    THEN ReturnNil(st, EOF)
    ELSE ReturnArc([st EXCEPT !.err = EOF, !.o = 0], NilError)

\* s.Scan() returned false: the stream has ended, by end of input or by a
\* read error (s.Err() != nil)
ScanEnded(st) ==
    IF rObs.end = "ReadErr"
    THEN ReturnNil([st EXCEPT !.err = ReadError], ReadError)
    ELSE IF Len(st.a.Obs) = 0
    THEN ReturnNil(st, EOF)
    ELSE ReturnArc([st EXCEPT !.err = EOF, !.o = 0], NilError)

\* one pass of the loop labelled arc
Iteration(st) ==
    IF st.s < Len(rObs.lines)
    THEN ScannedLine([st EXCEPT !.s = @ + 1], rObs.lines[st.s + 1])
    ELSE [ScanEnded(st) EXCEPT !.atEnd = TRUE]

RECURSIVE Loop(_)
\* the loop labelled arc, from the result r of a pass to the end of the call
Loop(r) == IF r.go THEN Loop(Iteration(r.st)) ELSE r

\* SplitCall without the observation carried from the last call
SplitCall_DropCarried(st) ==
    IF st.err # NilError
    THEN ReturnNil([st EXCEPT !.err = NilError], st.err)
    ELSE Loop(Continue([st EXCEPT !.a.Obs = <<>>]))

\* one call of the function ArcSplitter returns
SplitCall(st) ==
    IF st.err # NilError
    THEN ReturnNil([st EXCEPT !.err = NilError], st.err)
    ELSE IF st.o # 0
    THEN Loop(Continue([st EXCEPT !.a = [Desig |-> st.desig, Obs |-> <<st.o>>]]))
    ELSE Loop(Continue([st EXCEPT !.a.Obs = <<>>]))

Streams ==
    UNION {[1..n -> DOMAIN Lines] : n \in 0..MaxLines}

\* no call of ParseObs80Date on its own
NoDates == dargs = <<>> /\ dates = <<>>

NotParsed == [res |-> "none"]

NoLineFields == [len |-> 0]

\* no call of ParseObs80 on its own
NoLine == largs = NoLineFields /\ parsed = NotParsed

NotMerged == [res |-> "none"]

NoSat2Fields == [unit |-> ""]

\* no call of ParseSat2 on its own
NoSat2 == sargs = NoSat2Fields /\ merged = NotMerged

NotFound == [done |-> FALSE, index |-> <<>>, isNil |-> TRUE]

\* no call of FindTrackletsIndex
NoTracks == ts = <<>> /\ found = NotFound

NoAgain == shuffled = <<>> /\ again = NotFound

NoReduce == [set |-> <<>>, calls |-> <<>>]

\* o before the first line is decoded, and after a line that is not
NilO == [isNil |-> TRUE, k |-> 0, ref |-> 0, obs |-> NilObs]

\* Split's state at its start
SplitStart ==
    [n |-> 0, desig |-> "", o |-> NilO, des0 |-> "", obuf |-> <<>>,
     at |-> "loop", after |-> ""]

\* a channel of capacity c, just made
MakeChan(c) == [cap |-> c, buf |-> <<>>, closed |-> 0]

NoSplit ==
    /\ iObs = [lines |-> <<>>, end |-> "EOF"]
    /\ sp = SplitStart
    /\ arcCh = MakeChan(0)
    /\ errCh = MakeChan(0)
    /\ consumer = [state |-> "recv", got |-> <<>>, takesErr |-> FALSE, errs |-> <<>>]
    /\ sent = <<>>

\* ReadObscodeDat not called
NotRead == [res |-> "none", err |-> "", m |-> <<>>]

NoObscode ==
    /\ ocd = <<>>
    /\ pmap = NotRead

\* the struct before the function NewExportUnmarshaler returned has run
NewOrbit ==
    [called |-> FALSE, NEO |-> FALSE, Km |-> FALSE, Seen |-> FALSE,
     Crit |-> FALSE, PHA |-> FALSE]

NoExport ==
    /\ data = ""
    /\ orbit = NewOrbit

NoSteps ==
    /\ groups = <<>>
    /\ rangeKeys = <<>>
    /\ frames = <<>>
    /\ tlist = <<>>
    /\ pos = "start"
    /\ lastReduce = NoReduce

\* the closure ArcSplitter returns, before its first call
ArcSplitterStart ==
    /\ s = 0
    /\ a = [Desig |-> "", Obs |-> <<>>]
    /\ desig = ""
    /\ o = 0
    /\ err = NilError
    /\ objs = [k \in 1..MaxLines |-> NilObs]
    /\ results = <<>>
    /\ panicked = FALSE

\* a stream that is not read
NoStream == rObs = [lines |-> <<>>, end |-> "EOF"] /\ ArcSplitterStart

Init ==
    /\ rObs \in [lines : Streams, end : {"EOF", "ReadErr"}]
    /\ ArcSplitterStart
    /\ NoDates
    /\ NoLine
    /\ NoSat2
    /\ NoTracks
    /\ NoAgain
    /\ NoSteps
    /\ NoObscode
    /\ NoExport
    /\ NoSplit

Call ==
    /\ ~panicked
    /\ Len(results) < Len(rObs.lines) + MaxExtraCalls
    /\ \E r \in {SplitCall([a |-> a, desig |-> desig, o |-> o, err |-> err,
                            objs |-> objs, s |-> s])} :
           /\ s' = r.st.s
           /\ a' = r.st.a
           /\ desig' = r.st.desig
           /\ o' = r.st.o
           /\ err' = r.st.err
           /\ objs' = r.st.objs
           /\ panicked' = r.panic
           /\ results' = IF r.panic THEN results
                         ELSE Append(results,
                                     [arc |-> r.arc, err |-> r.e, read |-> r.st.s,
                                      atEnd |-> r.atEnd])
    /\ UNCHANGED rObs
    /\ UNCHANGED dateVars
    /\ UNCHANGED lineVars
    /\ UNCHANGED sat2Vars
    /\ UNCHANGED trackVars
    /\ UNCHANGED againVars
    /\ UNCHANGED stepVars
    /\ UNCHANGED <<ocdVars, exportVars>>
    /\ UNCHANGED chanVars

Next == Call

Spec == Init /\ [][Next]_vars

(***************************************************************************)
(* obs80.go: ParseObs80Date called with the dates of a range of years.     *)
(* A date is [Y, M, D, frac, blank, blankM]: year, month, day of the       *)
(* month, the decimals of the day, whether a day below 10 is written with  *)
(* a leading blank instead of a leading zero, and whether a month below 10 *)
(* is.                                                                     *)
(***************************************************************************)
\* years on either side of 1900, 2000 and 2012
YearsAround == 2

Years == UNION {(c - YearsAround)..(c + YearsAround) : c \in {1900, 2000, 2012}}

\* the decimals of a day: the text after the day's two characters and its
\* value f / 10^e
Fracs ==
    {[str |-> "", f |-> 0, e |-> 0],
     [str |-> ".8", f |-> 8, e |-> 1],
     [str |-> ".40285", f |-> 40285, e |-> 5]}

DateArgs ==
    {x \in [Y : Years, M : 1..12, D : 1..31, frac : Fracs, blank : BOOLEAN,
             blankM : {FALSE}] :
        x.blank => x.D < 10}

Digit(n) == SubSeq("0123456789", n + 1, n + 1)

Pad2(n) == Digit(n \div 10) \o Digit(n % 10)

Pad4(n) == Pad2(n \div 100) \o Pad2(n % 100)

\* the string "yyyy mm dd" and decimals of a date
DateString(x) ==
    Pad4(x.Y) \o " " \o (IF x.blankM THEN " " \o Digit(x.M) ELSE Pad2(x.M)) \o " "
        \o (IF x.blank THEN " " \o Digit(x.D) ELSE Pad2(x.D)) \o x.frac.str

IsLeap(y) == y % 4 = 0 /\ (y % 100 # 0 \/ y % 400 = 0)

DaysIn(y, m) ==
    IF m = 2 THEN (IF IsLeap(y) THEN 29 ELSE 28)
    ELSE IF m \in {4, 6, 9, 11} THEN 30 ELSE 31

\* x is a date of the calendar
IsCalendarDate(x) == x.D <= DaysIn(x.Y, x.M)

NextDay(x) ==
    IF x.D < DaysIn(x.Y, x.M) THEN [x EXCEPT !.D = @ + 1]
    ELSE IF x.M < 12 THEN [x EXCEPT !.D = 1, !.M = @ + 1]
    ELSE [x EXCEPT !.D = 1, !.M = 1, !.Y = @ + 1]

\* the date x is compared with: the same date with the day zero-padded if x
\* has a blank, else the next calendar day (or x itself if x is no
\* calendar date)
Companion(x) ==
    IF x.blank THEN [x EXCEPT !.blank = FALSE]
    ELSE IF IsCalendarDate(x) THEN NextDay(x)
    ELSE x

NotCalled == [res |-> "none", mjd |-> Zero]

DateInit ==
    /\ NoStream
    /\ NoLine
    /\ NoSat2
    /\ NoTracks
    /\ NoAgain
    /\ NoSteps
    /\ NoObscode
    /\ NoExport
    /\ NoSplit
    /\ dargs \in {<<x, Companion(x)>> : x \in DateArgs}
    /\ dates = <<NotCalled, NotCalled>>

\* mjd, ok := ParseObs80Date(d), for d the string of dargs[k]
ParseDateCall ==
    /\ \E k \in DOMAIN dargs :
          /\ dates[k] = NotCalled
          /\ dates' = [dates EXCEPT ![k] = ParseObs80Date(DateString(dargs[k]))]
    /\ UNCHANGED dargs
    /\ UNCHANGED splitVars
    /\ UNCHANGED lineVars
    /\ UNCHANGED sat2Vars
    /\ UNCHANGED trackVars
    /\ UNCHANGED againVars
    /\ UNCHANGED stepVars
    /\ UNCHANGED <<ocdVars, exportVars>>
    /\ UNCHANGED chanVars

DateNext == ParseDateCall

DateSpec == DateInit /\ [][DateNext]_vars

\* the dates of the months below 10, each with the month written with a
\* leading blank and with a leading zero
MonthInit ==
    /\ NoStream
    /\ NoLine
    /\ NoSat2
    /\ NoTracks
    /\ NoAgain
    /\ NoSteps
    /\ NoObscode
    /\ NoExport
    /\ NoSplit
    /\ dargs \in {<<[x EXCEPT !.blankM = TRUE], x>> : x \in {y \in DateArgs : y.M < 10}}
    /\ dates = <<NotCalled, NotCalled>>

MonthSpec == MonthInit /\ [][DateNext]_vars

(***************************************************************************)
(* obs80.go: ParseObs80 called with lines made of the fields of the line   *)
(* of obs80_test.go, each field varied: well-formed and malformed numbers, *)
(* months inside and outside 1..12, magnitudes with every kind of band,    *)
(* site codes that pMap maps to constants, maps to nil and does not hold,  *)
(* and lines of 79, 80 and 81 characters.                                  *)
(***************************************************************************)
\* the magnitude fields (columns 66-70) and, where one is a number, its value
MagFields ==
    {[str |-> "19.2 ", blank |-> FALSE, ok |-> TRUE, v |-> [i |-> 19, f |-> 2, e |-> 1]],
     [str |-> " 9.5 ", blank |-> FALSE, ok |-> TRUE, v |-> [i |-> 9, f |-> 5, e |-> 1]],
     [str |-> "     ", blank |-> TRUE, ok |-> TRUE, v |-> Zero],
     [str |-> "1x.2 ", blank |-> FALSE, ok |-> FALSE, v |-> Zero]}

LineFields ==
    [len   : {79, 80, 81},
     c15   : {"C", "S", " "},
     year  : {"2014", "2o14"},
     month : {"09", "00", "13", "-1", " 9", "xx"},
     day   : {"03.40285", "o3.40285"},
     ra    : {"02 53 00.70 ", "02 5x 00.70 "},
     dec   : {"+10 38 30.3 ", "-10 38 30.3 ", "+10 38 3o.3 "},
     mag   : MagFields,
     band  : {"V", "B", " ", "R"},
     site  : {"703", "644", "250", "248", "291"}]

\* the 80 characters the fields make
Line80(x) ==
    "     K11Q14F  " \o x.c15 \o x.year \o " " \o x.month \o " " \o x.day
        \o " " \o x.ra \o x.dec \o "         " \o x.mag.str \o x.band
        \o "qER031" \o x.site

\* the line of x.len characters
LineString(x) ==
    IF x.len = 80 THEN Line80(x)
    ELSE IF x.len < 80 THEN SubSeq(Line80(x), 1, x.len)
    ELSE Line80(x) \o " "

LineInit ==
    /\ NoStream
    /\ NoDates
    /\ NoSat2
    /\ NoTracks
    /\ NoAgain
    /\ NoSteps
    /\ NoObscode
    /\ NoExport
    /\ NoSplit
    /\ largs \in LineFields
    /\ parsed = NotParsed

\* desig, o, err := ParseObs80(line80, pMap)
ParseLineCall ==
    /\ parsed = NotParsed
    /\ parsed' = ParseObs80(LineString(largs), pMap)
    /\ UNCHANGED largs
    /\ UNCHANGED splitVars
    /\ UNCHANGED dateVars
    /\ UNCHANGED sat2Vars
    /\ UNCHANGED trackVars
    /\ UNCHANGED againVars
    /\ UNCHANGED stepVars
    /\ UNCHANGED <<ocdVars, exportVars>>
    /\ UNCHANGED chanVars

LineNext == ParseLineCall

LineSpec == LineInit /\ [][LineNext]_vars

(***************************************************************************)
(* obs80.go: ParseSat2 called with the results of ParseObs80(tcSatLine1)   *)
(* and a continuation line made of the fields of tcSatLine2, each varied.  *)
(***************************************************************************)
\* the offset fields: well-formed with each sign, a bad sign, a bad number
OffsetFields ==
    {"-  344.3553 ", "+  344.3553 ", "   344.3553 ", "x  344.3553 ",
     "-  34x.3553 "}

Sat2Fields ==
    [desig : {"03620       ", "03621       "},
     date  : {"1996 08 30.51477 ", "1996 08 30.514770", "1996 08 30.51478 ",
              "1996 o8 30.51477 ", "1996 13 30.51477 "},
     unit  : {"1", "2"},
     x     : OffsetFields,
     y     : {"- 6919.1239 ", "- 6919.12x9 "},
     z     : {"+  872.2948 ", "*  872.2948 "},
     site  : {"250", "248"}]

\* the 80 characters the fields make
Sat2String(x) ==
    x.desig \o "  s" \o x.date \o x.unit \o " " \o x.x \o x.y \o x.z
        \o "  27764" \o x.site

\* desig, o, err := ParseObs80(tcSatLine1, pMap), the first line
Line1 == ParseObs80(tcSatLine1, pMap)

Sat2Init ==
    /\ NoStream
    /\ NoDates
    /\ NoLine
    /\ NoTracks
    /\ NoAgain
    /\ NoSteps
    /\ NoObscode
    /\ NoExport
    /\ NoSplit
    /\ sargs \in Sat2Fields
    /\ merged = NotMerged

\* err := ParseSat2(line80, desig, s1)
ParseSat2Call ==
    /\ merged = NotMerged
    /\ merged' = ParseSat2(Sat2String(sargs), Line1.desig, Line1.o)
    /\ UNCHANGED sargs
    /\ UNCHANGED splitVars
    /\ UNCHANGED dateVars
    /\ UNCHANGED lineVars
    /\ UNCHANGED trackVars
    /\ UNCHANGED againVars
    /\ UNCHANGED stepVars
    /\ UNCHANGED <<ocdVars, exportVars>>
    /\ UNCHANGED chanVars

Sat2Next == ParseSat2Call

Sat2Spec == Sat2Init /\ [][Sat2Next]_vars

(***************************************************************************)
(* tracklet.go: FindTrackletsIndex.  Times are whole thousandths of a day, *)
(* so the limits .042, .125, .25 and .5 day are 42, 125, 250 and 500.  A   *)
(* td is [mjd, index]; a tk is [index, sum, n], its mean being sum / n.    *)
(* sort.Sort is not stable and the order of a map's keys is not fixed:     *)
(* both are a choice among the arrangements they can give.                 *)
(***************************************************************************)
\* longest list of observations
MaxObs == 4

\* longest list of observations that is followed step by step
MaxSet == 6

OneHour == 42

ThreeHours == 125

SixHours == 250

SameNight == 500

Times == {0, 40, 100, 200, 450, 700}

Observers == {"691", "703"}

\* the permutations of 1..n
Perms ==
    [n \in 0..MaxObs |->
        {p \in [1..n -> 1..n] : \A i, j \in 1..n : p[i] = p[j] => i = j}]

RECURSIVE Grouped(_, _, _)
\* m[ob] after the first n observations have been appended
Grouped(obsv, ob, n) ==
    IF n = 0 THEN <<>>
    ELSE IF obsv[n].observer = ob
    THEN Append(Grouped(obsv, ob, n - 1), [mjd |-> obsv[n].mjd, index |-> n - 1])
    ELSE Grouped(obsv, ob, n - 1)

\* every observation under every key
GroupOf_AnyObserver(obsv, ob) ==
    [k \in 1..Len(obsv) |-> [mjd |-> obsv[k].mjd, index |-> k - 1]]

\* m[ob] after "for i, t := range ts"
GroupOf(obsv, ob) == Grouped(obsv, ob, Len(obsv))

\* the keys of m
Keys(obsv) == {obsv[k].observer : k \in DOMAIN obsv}

\* the orders "range m" can take the keys in
Orders(obsv) ==
    {f \in [1..Cardinality(Keys(obsv)) -> Keys(obsv)] :
        \A i, j \in DOMAIN f : f[i] = f[j] => i = j}

\* dated.Less
LessDated(x, y) == x.mjd < y.mjd

\* list without its k-th element
RemoveAt(list, k) == SubSeq(list, 1, k - 1) \o SubSeq(list, k + 1, Len(list))

RECURSIVE SortedDated(_)
\* the arrangements of set in which nothing comes before an element it is
\* less than: any element that none is less than, then such an arrangement
\* of the others
SortedDated(set) ==
    IF set = <<>> THEN {<<>>}
    ELSE UNION {{<<set[k]>> \o rest : rest \in SortedDated(RemoveAt(set, k))} :
                  k \in {j \in DOMAIN set :
                           \A i \in DOMAIN set : ~LessDated(set[i], set[j])}}

\* t1 left in the order of the input
SortDated_Unsorted(set) == {set}

\* sort.Sort(t1), which is not stable
SortDated(set) == SortedDated(set)

RECURSIVE SumMjd(_)
SumMjd(set) == IF set = <<>> THEN 0 ELSE Head(set).mjd + SumMjd(Tail(set))

\* appendTl writing the index of the first observation at every place
appendTl_FirstIndex(set) ==
    [index |-> [k \in 1..Len(set) |-> set[1].index],
     sum   |-> SumMjd(set),
     n     |-> Len(set)]

\* the tk appendTl(set) appends to tl
appendTl(set) ==
    [index |-> [k \in 1..Len(set) |-> set[k].index],
     sum   |-> SumMjd(set),
     n     |-> Len(set)]

RECURSIVE GapLoop(_, _, _, _)
\* the loop "for s := 2; s < len(set); s++", from s on: the split it ends
\* with (set[s] of the code is set[s + 1] here)
GapLoop(set, s0, longest, split) ==
    IF s0 >= Len(set) THEN split
    ELSE IF set[s0 + 1].mjd - set[s0].mjd > longest
    THEN GapLoop(set, s0 + 1, set[s0 + 1].mjd - set[s0].mjd, s0)
    ELSE GapLoop(set, s0 + 1, longest, split)

\* no split: everything in rt
SplitIndex_Zero(set) == 0

\* split at the last of the longest gaps
SplitIndex_LastLongest(set) ==
    CHOOSE k \in 1..(Len(set) - 1) :
        /\ \A j \in 1..(Len(set) - 1) :
              set[j + 1].mjd - set[j].mjd <= set[k + 1].mjd - set[k].mjd
        /\ \A j \in (k + 1)..(Len(set) - 1) :
              set[j + 1].mjd - set[j].mjd < set[k + 1].mjd - set[k].mjd

\* split at longest gap
SplitIndex(set) == GapLoop(set, 2, set[2].mjd - set[1].mjd, 1)

RECURSIVE reduce(_)

\* reduce after the split into lf and rt: the tks it appends, in order
ReduceHalves(set, d, lf, rt) ==
    IF Len(lf) >= 3 /\ Len(rt) >= 3 THEN reduce(lf) \o reduce(rt)
    ELSE IF Len(lf) = 2 /\ Len(rt) >= 2 /\ lf[2].mjd - lf[1].mjd < SameNight
    THEN <<appendTl(lf)>> \o reduce(rt)
    ELSE IF Len(rt) = 2 /\ Len(lf) >= 2 /\ rt[2].mjd - rt[1].mjd < SameNight
    THEN reduce(lf) \o <<appendTl(rt)>>
    ELSE IF Len(set) = 3 /\ d < SameNight THEN <<appendTl(set)>>
    ELSE IF d < SixHours THEN <<appendTl(set)>>
    ELSE reduce(lf) \o reduce(rt)

ReduceSplit(set, d, split) ==
    ReduceHalves(set, d, SubSeq(set, 1, split), SubSeq(set, split + 1, Len(set)))

\* ReduceSet with two observations always accepted together
ReduceSet_PairTogether(set, d) ==
    IF d < OneHour THEN <<appendTl(set)>>
    ELSE IF Len(set) <= 5 /\ d < ThreeHours THEN <<appendTl(set)>>
    ELSE IF Len(set) = 2 THEN <<appendTl(set)>>
    ELSE ReduceSplit(set, d, SplitIndex(set))

\* reduce, d being the time from first to last of set
ReduceSet(set, d) ==
    IF d < OneHour THEN <<appendTl(set)>>
    ELSE IF Len(set) <= 5 /\ d < ThreeHours THEN <<appendTl(set)>>
    ELSE IF Len(set) = 2
    THEN IF d < SameNight THEN <<appendTl(set)>>
         ELSE <<appendTl(SubSeq(set, 1, 1)), appendTl(SubSeq(set, 2, 2))>>
    ELSE ReduceSplit(set, d, SplitIndex(set))

reduce(set) == ReduceSet(set, set[Len(set)].mjd - set[1].mjd)

RECURSIVE TlAfter(_, _, _)
\* what tl can be after "for _, t1 := range m" has taken the first n keys of
\* order
TlAfter(obsv, order, n) ==
    IF n = 0 THEN {<<>>}
    ELSE {tl \o reduce(t1) :
            tl \in TlAfter(obsv, order, n - 1),
            t1 \in SortDated(GroupOf(obsv, order[n]))}

\* tkList.Less
LessTk(x, y) == x.sum * y.n < y.sum * x.n

RECURSIVE SortedTl(_)
\* the arrangements of tl in which nothing comes before a tk it is less than
SortedTl(tl) ==
    IF tl = <<>> THEN {<<>>}
    ELSE UNION {{<<tl[k]>> \o rest : rest \in SortedTl(RemoveAt(tl, k))} :
                  k \in {j \in DOMAIN tl :
                           \A i \in DOMAIN tl : ~LessTk(tl[i], tl[j])}}

\* tl left as reduce filled it
SortTl_Unsorted(tl) == {tl}

\* sort.Sort(tl), which is not stable
SortTl(tl) == SortedTl(tl)

\* the lists of tracklets FindTrackletsIndex(obsv) can return
FindTrackletsIndex(obsv) ==
    {[k \in 1..Len(sorted) |-> sorted[k].index] :
        sorted \in UNION {SortTl(tl) :
                    tl \in UNION {TlAfter(obsv, order, Len(order)) :
                                order \in Orders(obsv)}}}

TrackInit ==
    /\ NoStream
    /\ NoDates
    /\ NoLine
    /\ NoSat2
    /\ ts \in UNION {[1..n -> [mjd : Times, observer : Observers]] : n \in 0..MaxObs}
    /\ found = NotFound
    /\ NoAgain
    /\ NoSteps
    /\ NoObscode
    /\ NoExport
    /\ NoSplit

\* index := FindTrackletsIndex(ts)
FindCall ==
    /\ ~found.done
    /\ \E index \in FindTrackletsIndex(ts) :
          found' = [done |-> TRUE, index |-> index, isNil |-> FALSE]
    /\ UNCHANGED ts
    /\ UNCHANGED againVars
    /\ UNCHANGED stepVars
    /\ UNCHANGED <<ocdVars, exportVars>>
    /\ UNCHANGED chanVars
    /\ UNCHANGED splitVars
    /\ UNCHANGED dateVars
    /\ UNCHANGED lineVars
    /\ UNCHANGED sat2Vars

TrackNext == FindCall

TrackSpec == TrackInit /\ [][TrackNext]_vars

(***************************************************************************)
(* Two calls of FindTrackletsIndex, the second with the observations of    *)
(* the first in any order (the same order included).                       *)
(***************************************************************************)
\* longest list of observations that is called twice
MaxShuffled == 3

ShuffledTimes == {0, 40, 700}

\* obsv in the order p
Permuted(obsv, p) == [k \in DOMAIN obsv |-> obsv[p[k]]]

AgainInit ==
    /\ NoStream
    /\ NoDates
    /\ NoLine
    /\ NoSat2
    /\ ts \in UNION {[1..n -> [mjd : ShuffledTimes, observer : Observers]] :
                        n \in 0..MaxShuffled}
    /\ found = NotFound
    /\ shuffled \in {Permuted(ts, p) : p \in Perms[Len(ts)]}
    /\ again = NotFound
    /\ NoSteps
    /\ NoObscode
    /\ NoExport
    /\ NoSplit

\* index := FindTrackletsIndex(shuffled), after the first call
FindAgain ==
    /\ found.done
    /\ ~again.done
    /\ \E index \in FindTrackletsIndex(shuffled) :
          again' = [done |-> TRUE, index |-> index, isNil |-> FALSE]
    /\ UNCHANGED shuffled
    /\ UNCHANGED trackVars
    /\ UNCHANGED stepVars
    /\ UNCHANGED <<ocdVars, exportVars>>
    /\ UNCHANGED chanVars
    /\ UNCHANGED splitVars
    /\ UNCHANGED dateVars
    /\ UNCHANGED lineVars
    /\ UNCHANGED sat2Vars

AgainNext == FindCall \/ FindAgain

AgainSpec == AgainInit /\ [][AgainNext]_vars

(***************************************************************************)
(* FindTrackletsIndex step by step: the first loop, then for each key of   *)
(* m the sort and the calls of reduce and appendTl one at a time, then the *)
(* sort of tl and the return.  The observations are given in the order of  *)
(* their times, those of one observer at different times, the times lying  *)
(* on both sides of each limit; the second observer observes at two times  *)
(* only.                                                                   *)
(***************************************************************************)
StepTimes == {0, 10, 20, 30, 40, 41, 42, 125, 250, 500, 541}

\* the times of the second observer
OtherTimes == {0, 500}

\* the observations the lists are made of
StepObs ==
    [mjd : StepTimes, observer : {"691"}] \cup [mjd : OtherTimes, observer : {"703"}]

\* the call appendTl(set), still to be made
Accept(set) == <<[op |-> "appendTl", set |-> set]>>

\* the call reduce(set), still to be made
Recurse(set) == <<[op |-> "reduce", set |-> set]>>

\* HalvesCalls with the rule for two observations in rt tried first
HalvesCalls_RightFirst(set, d, lf, rt) ==
    IF Len(lf) >= 3 /\ Len(rt) >= 3 THEN Recurse(lf) \o Recurse(rt)
    ELSE IF Len(rt) = 2 /\ Len(lf) >= 2 /\ rt[2].mjd - rt[1].mjd < SameNight
    THEN Recurse(lf) \o Accept(rt)
    ELSE IF Len(lf) = 2 /\ Len(rt) >= 2 /\ lf[2].mjd - lf[1].mjd < SameNight
    THEN Accept(lf) \o Recurse(rt)
    ELSE IF Len(set) = 3 /\ d < SameNight THEN Accept(set)
    ELSE IF d < SixHours THEN Accept(set)
    ELSE Recurse(lf) \o Recurse(rt)

\* HalvesCalls accepting every list of less than 0.5 day whole
HalvesCalls_WholeSameNight(set, d, lf, rt) ==
    IF Len(lf) >= 3 /\ Len(rt) >= 3 THEN Recurse(lf) \o Recurse(rt)
    ELSE IF Len(lf) = 2 /\ Len(rt) >= 2 /\ lf[2].mjd - lf[1].mjd < SameNight
    THEN Accept(lf) \o Recurse(rt)
    ELSE IF Len(rt) = 2 /\ Len(lf) >= 2 /\ rt[2].mjd - rt[1].mjd < SameNight
    THEN Recurse(lf) \o Accept(rt)
    ELSE IF d < SameNight THEN Accept(set)
    ELSE Recurse(lf) \o Recurse(rt)

\* the calls reduce makes after the split into lf and rt, in order
HalvesCalls(set, d, lf, rt) ==
    IF Len(lf) >= 3 /\ Len(rt) >= 3 THEN Recurse(lf) \o Recurse(rt)
    ELSE IF Len(lf) = 2 /\ Len(rt) >= 2 /\ lf[2].mjd - lf[1].mjd < SameNight
    THEN Accept(lf) \o Recurse(rt)
    ELSE IF Len(rt) = 2 /\ Len(lf) >= 2 /\ rt[2].mjd - rt[1].mjd < SameNight
    THEN Recurse(lf) \o Accept(rt)
    ELSE IF Len(set) = 3 /\ d < SameNight THEN Accept(set)
    ELSE IF d < SixHours THEN Accept(set)
    ELSE Recurse(lf) \o Recurse(rt)

\* SplitCalls without the rule "d < .25"
SplitCalls_NoSixHours(set, d, split) ==
    IF Len(set) = 3 /\ d < SameNight THEN Accept(set)
    ELSE IF d < SixHours
    THEN Recurse(SubSeq(set, 1, split)) \o Recurse(SubSeq(set, split + 1, Len(set)))
    ELSE HalvesCalls(set, d, SubSeq(set, 1, split), SubSeq(set, split + 1, Len(set)))

SplitCalls(set, d, split) ==
    HalvesCalls(set, d, SubSeq(set, 1, split), SubSeq(set, split + 1, Len(set)))

\* ReduceCalls without the rule "len(set) <= 5 && d < .125"
ReduceCalls_NoThreeHours(set, d) ==
    IF d < OneHour THEN Accept(set)
    ELSE IF Len(set) = 2
    THEN IF d < SameNight THEN Accept(set)
         ELSE Accept(SubSeq(set, 1, 1)) \o Accept(SubSeq(set, 2, 2))
    ELSE SplitCalls(set, d, SplitIndex(set))

\* the calls reduce(set) makes, in order, d being the time from first to
\* last of set
ReduceCalls(set, d) ==
    IF d < OneHour THEN Accept(set)
    ELSE IF Len(set) <= 5 /\ d < ThreeHours THEN Accept(set)
    ELSE IF Len(set) = 2
    THEN IF d < SameNight THEN Accept(set)
         ELSE Accept(SubSeq(set, 1, 1)) \o Accept(SubSeq(set, 2, 2))
    ELSE SplitCalls(set, d, SplitIndex(set))

RECURSIVE StepInputs(_)
\* the lists of n observations in the order of their times, those of one
\* observer at different times
StepInputs(n) ==
    IF n = 0 THEN {<<>>}
    ELSE {Append(x[1], x[2]) :
            x \in {y \in StepInputs(n - 1) \X StepObs :
                     \A k \in DOMAIN y[1] :
                         /\ y[1][k].mjd <= y[2].mjd
                         /\ y[1][k].observer = y[2].observer
                               => y[1][k].mjd # y[2].mjd}}

StepInit ==
    /\ NoStream
    /\ NoDates
    /\ NoLine
    /\ NoSat2
    /\ NoAgain
    /\ ts \in UNION {StepInputs(n) : n \in 0..MaxSet}
    /\ found = NotFound
    /\ NoSteps
    /\ NoObscode
    /\ NoExport
    /\ NoSplit

\* m := map[string]dated{} and the loop "for i, t := range ts"; the order
\* in which the second loop will take the keys is chosen here
GroupStep ==
    /\ pos = "start"
    /\ groups' = [ob \in Keys(ts) |-> GroupOf(ts, ob)]
    /\ rangeKeys' \in Orders(ts)
    /\ pos' = "range"
    /\ UNCHANGED <<frames, tlist, lastReduce, found>>
    /\ UNCHANGED <<ts, againVars, splitVars, dateVars, lineVars, sat2Vars, chanVars,
                   ocdVars, exportVars>>

\* "for _, t1 := range m": sort.Sort(t1), and reduce(t1) is to be called
RangeStep ==
    /\ pos = "range"
    /\ frames = <<>>
    /\ rangeKeys # <<>>
    /\ \E t1 \in SortDated(groups[Head(rangeKeys)]) : frames' = Recurse(t1)
    /\ rangeKeys' = Tail(rangeKeys)
    /\ UNCHANGED <<groups, tlist, pos, lastReduce, found>>
    /\ UNCHANGED <<ts, againVars, splitVars, dateVars, lineVars, sat2Vars, chanVars,
                   ocdVars, exportVars>>

\* one call of reduce, up to the calls it makes; set[len(set)-1] of an empty
\* set is an index out of range
ReduceStep ==
    /\ pos = "range"
    /\ frames # <<>>
    /\ Head(frames).op = "reduce"
    /\ \E set \in {Head(frames).set} :
          IF set = <<>>
          THEN /\ pos' = "panic"
               /\ UNCHANGED <<frames, lastReduce>>
          ELSE \E calls \in {ReduceCalls(set, set[Len(set)].mjd - set[1].mjd)} :
                 /\ frames' = calls \o Tail(frames)
                 /\ lastReduce' = [set |-> set, calls |-> calls]
                 /\ pos' = pos
    /\ UNCHANGED <<groups, rangeKeys, tlist, found>>
    /\ UNCHANGED <<ts, againVars, splitVars, dateVars, lineVars, sat2Vars, chanVars,
                   ocdVars, exportVars>>

\* one call of appendTl
AppendStep ==
    /\ pos = "range"
    /\ frames # <<>>
    /\ Head(frames).op = "appendTl"
    /\ tlist' = Append(tlist, appendTl(Head(frames).set))
    /\ frames' = Tail(frames)
    /\ UNCHANGED <<groups, rangeKeys, pos, lastReduce, found>>
    /\ UNCHANGED <<ts, againVars, splitVars, dateVars, lineVars, sat2Vars, chanVars,
                   ocdVars, exportVars>>

\* sort.Sort(tl) and the return of the index lists
ReturnStep ==
    /\ pos = "range"
    /\ frames = <<>>
    /\ rangeKeys = <<>>
    /\ \E sorted \in SortTl(tlist) :
          found' = [done  |-> TRUE,
                    index |-> [k \in 1..Len(sorted) |-> sorted[k].index],
                    isNil |-> FALSE]
    /\ pos' = "returned"
    /\ UNCHANGED <<groups, rangeKeys, frames, tlist, lastReduce>>
    /\ UNCHANGED <<ts, againVars, splitVars, dateVars, lineVars, sat2Vars, chanVars,
                   ocdVars, exportVars>>

StepNext ==
    \/ GroupStep
    \/ RangeStep
    \/ ReduceStep
    \/ AppendStep
    \/ ReturnStep

StepSpec == StepInit /\ [][StepNext]_vars

\* the steps go on while one can be taken
StepFairSpec == StepSpec /\ WF_vars(StepNext)

(***************************************************************************)
(* unnamed/part_001: Split and sendValid.  Split runs as a goroutine; the  *)
(* arcs it sends are received by a goroutine that receives from arcCh      *)
(* until it is closed; whether anything receives from errCh, and the       *)
(* capacities of the two channels, are the caller's choice.                *)
(***************************************************************************)
\* longest stream
MaxSplitLines == 3

\* obs later, at the place of obs
obsStill == "     K11Q14F  C2014 09 03.42285 02 53 00.70 +10 38 30.3          19.2 VqER031703"

\* obsNext in the year 1800, before the day MJD counts from
obsOld == "     K11Q14F  C1800 09 03.41285 02 53 01.70 +10 38 31.3          19.3 VqER031644"

SplitLines ==
    <<obs, obsNext, obsStill, obsOld, o2, o1, tcSatLine1, tcSatLine2, obsMonth13,
      short>>

\* ParseObs80(line, ocdMap) of each line
SplitDecoded == [k \in DOMAIN SplitLines |-> ParseObs80(SplitLines[k], pMap)]

\* the way each line takes through the loop: "length" (len(bLine) != 80),
\* "sat2" (line[14] == 's'), or what ParseObs80 makes of it
SplitLineClass ==
    [k \in DOMAIN SplitLines |->
        IF Len(SplitLines[k]) # 80 THEN "length"
        ELSE IF At(SplitLines[k], 14) = "s" THEN "sat2"
        ELSE SplitDecoded[k].res]

\* ParseSat2(line k2, desig, s), s being the *SatObs decoded from line k1 and
\* desig its designation
SplitSat2 ==
    [k1 \in DOMAIN SplitLines |-> [k2 \in DOMAIN SplitLines |->
        IF /\ SplitLineClass[k1] = "ok"
           /\ SplitDecoded[k1].o.kind = "SatObs"
           /\ SplitLineClass[k2] = "sat2"
        THEN ParseSat2(SplitLines[k2], SplitDecoded[k1].desig, SplitDecoded[k1].o)
        ELSE [res |-> "none"]]]

\* the capacities the two channels are made with, both with the same
Capacities == {0, 1}

RECURSIVE TimesIncrease(_, _, _)
\* the loop "for i := range obuf" of sendValid from the i-th observation on,
\* t0 being the time before it: FALSE when it returns
TimesIncrease(obuf, i, t0) ==
    IF i > Len(obuf) THEN TRUE
    ELSE IF ~DecLess(t0, obuf[i].obs.MJD) THEN FALSE
    ELSE TimesIncrease(obuf, i + 1, obuf[i].obs.MJD)

\* sendValid without the test of motion
Sends_NoMotion(obuf) ==
    /\ Len(obuf) >= 2
    /\ TimesIncrease(obuf, 1, Zero)

\* sendValid reaches its send
Sends(obuf) ==
    /\ Len(obuf) >= 2
    /\ TimesIncrease(obuf, 1, Zero)
    /\ ~(/\ obuf[1].obs.RA = obuf[Len(obuf)].obs.RA
         /\ obuf[1].obs.Dec = obuf[Len(obuf)].obs.Dec)

\* &observation.Arc{Desig: desig, Obs: append([]observation.VObs{}, obuf...)};
\* refs tells which lines the observations came from
NewArc(dsg, obuf) ==
    [Desig |-> dsg,
     Obs   |-> [k \in DOMAIN obuf |-> obuf[k].obs],
     refs  |-> [k \in DOMAIN obuf |-> obuf[k].ref]]

\* what follows a call of sendValid in Split
After(st, after) ==
    IF after = "clear" THEN [st EXCEPT !.obuf = <<>>, !.at = "loop", !.after = ""]
    ELSE IF after = "restart"
    THEN [st EXCEPT !.des0 = st.desig, !.obuf = <<st.o>>, !.at = "loop", !.after = ""]
    ELSE [st EXCEPT !.at = "close", !.after = ""]

\* sendValid(des0, obuf), up to its send if it reaches it, else up to what
\* follows the call
SendValid(st, after) ==
    IF Sends(st.obuf) THEN [st EXCEPT !.at = "sendArc", !.after = after]
    ELSE After(st, after)

\* if s, ok := o.(*observation.SatObs); ok { ParseSat2(line, desig, s) }:
\* s is the observation o points to, the last of obuf
Sat2(st, r) ==
    IF r.res = "panic" THEN [st EXCEPT !.at = "panic"]
    ELSE IF r.res = "ok"
    THEN [st EXCEPT !.o.obs = r.s1, !.obuf[Len(st.obuf)].obs = r.s1]
    ELSE st

\* desig, o, err = ParseObs80(line, ocdMap) and the switch; p is what
\* ParseObs80 returns, k the line, ref its place in the stream
Obs80(st, p, k, ref) ==
    IF p.res = "panic" THEN [st EXCEPT !.at = "panic"]
    ELSE IF p.res = "err"
    THEN SendValid([st EXCEPT !.desig = p.desig, !.o = NilO], "clear")
    ELSE IF Len(st.obuf) = 0
    THEN After([st EXCEPT !.desig = p.desig,
                          !.o = [isNil |-> FALSE, k |-> k, ref |-> ref, obs |-> p.o]],
               "restart")
    ELSE IF p.desig = st.des0
    THEN [st EXCEPT !.desig = p.desig,
                    !.o = [isNil |-> FALSE, k |-> k, ref |-> ref, obs |-> p.o],
                    !.obuf = Append(@, [isNil |-> FALSE, k |-> k, ref |-> ref,
                                        obs |-> p.o])]
    ELSE SendValid([st EXCEPT !.desig = p.desig,
                              !.o = [isNil |-> FALSE, k |-> k, ref |-> ref,
                                     obs |-> p.o]],
                   "restart")

\* the body of the loop for the line k, the st.n-th of the stream
Line(st, k) ==
    IF SplitLineClass[k] = "length" THEN st
    ELSE IF SplitLineClass[k] = "sat2"
    THEN IF st.o.isNil \/ st.o.obs.kind # "SatObs" THEN st
         ELSE Sat2(st, SplitSat2[st.o.k][k])
    ELSE Obs80(st, SplitDecoded[k], k, st.n)

\* the ways the stream ends: io.EOF, another error of ReadLine, or a line
\* too long for the buffer (isPrefix)
SplitEnds == {"EOF", "error", "long"}

SplitInit ==
    /\ NoStream
    /\ NoDates
    /\ NoLine
    /\ NoSat2
    /\ NoTracks
    /\ NoAgain
    /\ NoSteps
    /\ NoObscode
    /\ NoExport
    /\ iObs = [lines |-> <<>>, end |-> "open"]
    /\ sp = SplitStart
    /\ arcCh \in {MakeChan(c) : c \in Capacities}
    /\ errCh = MakeChan(arcCh.cap)
    /\ consumer \in [state : {"recv"}, got : {<<>>}, takesErr : BOOLEAN, errs : {<<>>}]
    /\ sent = <<>>

\* the error Split sends on errCh
SplitError ==
    IF iObs.end = "error" THEN ReadError
    ELSE NewError("Split: unexpected long line")

\* bf.ReadLine() and one pass of the loop, up to the next ReadLine or to a
\* send: the stream ends, and then the break, to the send on errCh if
\* ReadLine failed, else into the sendValid that follows the loop; or the
\* reader delivers one more line, any of SplitLines
ReadLine ==
    /\ sp.at = "loop"
    /\ iObs.end = "open"
    /\ \/ \E e \in SplitEnds :
             /\ iObs' = [iObs EXCEPT !.end = e]
             /\ sp' = IF e = "EOF" THEN SendValid(sp, "close")
                      ELSE [sp EXCEPT !.at = "sendErr"]
       \/ /\ Len(iObs.lines) < MaxSplitLines
          /\ \E k \in DOMAIN SplitLines :
                /\ iObs' = [iObs EXCEPT !.lines = Append(@, k)]
                /\ sp' = Line([sp EXCEPT !.n = @ + 1], k)
    /\ UNCHANGED <<arcCh, errCh, consumer, sent>>
    /\ UNCHANGED <<splitVars, dateVars, lineVars, sat2Vars, trackVars, againVars, stepVars,
                   ocdVars, exportVars>>

\* errCh <- err: into the buffer if there is room, or to a goroutine
\* receiving from errCh; then the break and the sendValid after the loop
SendErr ==
    /\ sp.at = "sendErr"
    /\ \/ /\ Len(errCh.buf) < errCh.cap
          /\ errCh' = [errCh EXCEPT !.buf = Append(@, SplitError)]
          /\ UNCHANGED consumer
       \/ /\ errCh.cap = 0
          /\ consumer.takesErr
          /\ consumer' = [consumer EXCEPT !.errs = Append(@, SplitError)]
          /\ UNCHANGED errCh
    /\ sent' = Append(sent, [ch |-> "errCh", msg |-> SplitError,
                             closed |-> errCh.closed > 0])
    /\ sp' = SendValid(sp, "close")
    /\ UNCHANGED <<iObs, arcCh>>
    /\ UNCHANGED <<splitVars, dateVars, lineVars, sat2Vars, trackVars, againVars, stepVars,
                   ocdVars, exportVars>>

\* arcCh <- &observation.Arc{...} in sendValid: into the buffer if there is
\* room, or to the goroutine receiving from arcCh; then what follows the
\* call of sendValid
SendArc ==
    /\ sp.at = "sendArc"
    /\ \E arc \in {NewArc(sp.des0, sp.obuf)} :
          /\ \/ /\ Len(arcCh.buf) < arcCh.cap
                /\ arcCh' = [arcCh EXCEPT !.buf = Append(@, arc)]
                /\ UNCHANGED consumer
             \/ /\ arcCh.cap = 0
                /\ consumer.state = "recv"
                /\ consumer' = [consumer EXCEPT !.got = Append(@, arc)]
                /\ UNCHANGED arcCh
          /\ sent' = Append(sent, [ch |-> "arcCh", msg |-> arc,
                                   closed |-> arcCh.closed > 0])
    /\ sp' = After(sp, sp.after)
    /\ UNCHANGED <<iObs, errCh>>
    /\ UNCHANGED <<splitVars, dateVars, lineVars, sat2Vars, trackVars, againVars, stepVars,
                   ocdVars, exportVars>>

\* close(arcCh) and the return
Close ==
    /\ sp.at = "close"
    /\ arcCh' = [arcCh EXCEPT !.closed = @ + 1]
    /\ sp' = [sp EXCEPT !.at = "done"]
    /\ UNCHANGED <<iObs, errCh, consumer, sent>>
    /\ UNCHANGED <<splitVars, dateVars, lineVars, sat2Vars, trackVars, againVars, stepVars,
                   ocdVars, exportVars>>

\* the receiver takes an arc from the buffer of arcCh
Receive ==
    /\ consumer.state = "recv"
    /\ arcCh.buf # <<>>
    /\ consumer' = [consumer EXCEPT !.got = Append(@, Head(arcCh.buf))]
    /\ arcCh' = [arcCh EXCEPT !.buf = Tail(@)]
    /\ UNCHANGED <<iObs, sp, errCh, sent>>
    /\ UNCHANGED <<splitVars, dateVars, lineVars, sat2Vars, trackVars, againVars, stepVars,
                   ocdVars, exportVars>>

\* the receiver finds arcCh closed and empty, and stops
ReceiveClosed ==
    /\ consumer.state = "recv"
    /\ arcCh.buf = <<>>
    /\ arcCh.closed > 0
    /\ consumer' = [consumer EXCEPT !.state = "done"]
    /\ UNCHANGED <<iObs, sp, arcCh, errCh, sent>>
    /\ UNCHANGED <<splitVars, dateVars, lineVars, sat2Vars, trackVars, againVars, stepVars,
                   ocdVars, exportVars>>

\* a goroutine takes the error from the buffer of errCh
ReceiveErr ==
    /\ consumer.takesErr
    /\ errCh.buf # <<>>
    /\ consumer' = [consumer EXCEPT !.errs = Append(@, Head(errCh.buf))]
    /\ errCh' = [errCh EXCEPT !.buf = Tail(@)]
    /\ UNCHANGED <<iObs, sp, arcCh, sent>>
    /\ UNCHANGED <<splitVars, dateVars, lineVars, sat2Vars, trackVars, againVars, stepVars,
                   ocdVars, exportVars>>

SplitNext ==
    \/ ReadLine
    \/ SendErr
    \/ SendArc
    \/ Close
    \/ Receive
    \/ ReceiveClosed
    \/ ReceiveErr

SplitSpec == SplitInit /\ [][SplitNext]_vars

\* every goroutine that can take a step takes one in the end
SplitFairSpec == SplitSpec /\ WF_vars(SplitNext)

(***************************************************************************)
(* What the stream holds, read off the stream itself (not off the          *)
(* splitter's state): the yardstick the claims measure the results with.   *)
(***************************************************************************)
\* the parse errors a call can return: ArcError, or an error that is none
ParseErrTypes == {"ArcError", "error"}

IsParseError(e) == e.type \in ParseErrTypes

\* what becomes of each line of Lines: "length" (not 80 characters), "sat2"
\* (a continuation line), or what ParseObs80 makes of it ("ok", "err",
\* "panic")
LineClass ==
    [k \in DOMAIN Lines |->
        IF Len(Lines[k]) # 80 THEN "length"
        ELSE IF At(Lines[k], 14) = "s" THEN "sat2"
        ELSE Decoded[k].res]

\* ParseSat2 of line k2 against the satellite observation decoded from line k1
Sat2Of ==
    [k1 \in DOMAIN Lines, k2 \in DOMAIN Lines |->
        IF /\ LineClass[k1] = "ok" /\ Decoded[k1].o.kind = "SatObs"
           /\ LineClass[k2] = "sat2"
        THEN ParseSat2(Lines[k2], Decoded[k1].desig, Decoded[k1].o)
        ELSE [res |-> "none"]]

\* the p-th line is a continuation line: 80 characters, column 15 = 's'
IsSat2Line(p) == LineClass[rObs.lines[p]] = "sat2"

\* the p-th line is one ParseObs80 decodes
Decodes(p) == LineClass[rObs.lines[p]] = "ok"

\* columns 1-12 of each 80 character line of Lines, trimmed
DesigOf ==
    [k \in DOMAIN Lines |->
        IF Len(Lines[k]) = 80 THEN TrimSpace(Slice(Lines[k], 0, 12)) ELSE ""]

\* the trimmed designation of the p-th line
DesigAt(p) == DesigOf[rObs.lines[p]]

NoLast == [pos |-> 0, desig |-> "", o |-> NilObs]

\* the last decoded item after line p, given the one before it
LastAfter(prev, p) ==
    IF Decodes(p)
    THEN [pos |-> p, desig |-> DesigAt(p), o |-> Decoded[rObs.lines[p]].o]
    ELSE IF /\ IsSat2Line(p)
            /\ prev.pos # 0
            /\ Sat2Of[rObs.lines[prev.pos], rObs.lines[p]].res = "ok"
    THEN [prev EXCEPT !.o = Sat2Of[rObs.lines[prev.pos], rObs.lines[p]].s1]
    ELSE NoLast

RECURSIVE LastDecoded(_)
\* the last decoded item after the first p lines: the observation of the
\* latest decoded line (pos tells which) with the continuation lines merged
\* into it, or nothing (pos = 0) when the latest line failed
LastDecoded(p) ==
    IF p = 0 THEN NoLast ELSE LastAfter(LastDecoded(p - 1), p)

\* the p-th line is a parse failure: a wrong length, a line ParseObs80
\* returns an error for, or a continuation line that cannot be merged
Fails(p) ==
    \/ LineClass[rObs.lines[p]] \in {"length", "err"}
    \/ IsSat2Line(p) /\ LastDecoded(p).pos = 0

RECURSIVE DecodedUpTo(_)
\* the positions of the lines among the first n that ParseObs80 decodes, in
\* increasing order
DecodedUpTo(n) ==
    IF n = 0 THEN <<>>
    ELSE IF Decodes(n) THEN Append(DecodedUpTo(n - 1), n)
    ELSE DecodedUpTo(n - 1)

RECURSIVE ConcatRefs(_, _)
\* the observations of the first n results, concatenated in call order
ConcatRefs(res, n) ==
    IF n = 0 THEN <<>> ELSE ConcatRefs(res, n - 1) \o res[n].arc.refs

\* the observation decoded from line p, whatever was merged into it
Bare(ob) == [ob EXCEPT !.Offset = ZeroCart]

\* a parse error for line p has been returned, or is carried to the next call
ErrorAt(p) ==
    \/ \E i \in DOMAIN results :
          results[i].read = p /\ IsParseError(results[i].err)
    \/ s = p /\ IsParseError(err)

(***************************************************************************)
(* C1.  Every arc returned with a nil error has at least one observation,  *)
(* and every observation in it was decoded from a line of the stream whose *)
(* trimmed designation is the arc's Desig.                                 *)
(***************************************************************************)
C1_ArcOfOneDesignation ==
    \A i \in DOMAIN results :
        results[i].err = NilError =>
            /\ ~results[i].arc.isNil
            /\ Len(results[i].arc.Obs) >= 1
            /\ \A j \in DOMAIN results[i].arc.refs :
                  /\ Decodes(results[i].arc.refs[j])
                  /\ DesigAt(results[i].arc.refs[j]) = results[i].arc.Desig
                  /\ Bare(results[i].arc.Obs[j])
                        = Decoded[rObs.lines[results[i].arc.refs[j]]].o

\* an arc of two observations is returned after an earlier arc and a parse
\* error
C1_Witness ==
    \E i \in DOMAIN results :
        /\ i >= 3
        /\ results[i].err = NilError
        /\ Len(results[i].arc.Obs) >= 2
        /\ \E j \in 1..(i - 1) : IsParseError(results[j].err)

(***************************************************************************)
(* C2.  On a stream that ends without a read error, the arcs returned up   *)
(* to the call that returns io.EOF hold, concatenated in call order,       *)
(* exactly the decoded observation lines of the stream in input order:     *)
(* none lost, none twice, none out of order.                               *)
(***************************************************************************)
C2_NoObservationLost ==
    \A n \in DOMAIN results :
        (rObs.end = "EOF" /\ results[n].err = EOF) =>
            /\ ConcatRefs(results, n) = DecodedUpTo(Len(rObs.lines))
            /\ \A i \in 1..n : \A j \in DOMAIN results[i].arc.refs :
                  Bare(results[i].arc.Obs[j])
                      = Decoded[rObs.lines[results[i].arc.refs[j]]].o

\* io.EOF is reached after an observation was held over at a designation
\* change and after a malformed line followed accumulated observations
C2_Witness ==
    \E n \in DOMAIN results :
        /\ results[n].err = EOF
        /\ \E i \in 1..(n - 2) :
              results[i].err = NilError /\ results[i + 1].err = NilError
        /\ \E j \in 2..(n - 1) :
              /\ IsParseError(results[j].err)
              /\ results[j - 1].err = NilError
              /\ results[j - 1].read = results[j].read

(***************************************************************************)
(* C3.  An arc ends only at a designation change, a parse failure or the   *)
(* end of input: two arcs returned by consecutive calls have different     *)
(* designations, and the line that ended an arc never decodes to the       *)
(* arc's own designation.                                                  *)
(***************************************************************************)
\* call i ended because line results[i].read decodes to another designation
\* (the next arc begins with that line)
DesigChange(i) ==
    /\ results[i].read >= 1
    /\ Decodes(results[i].read)
    /\ DesigAt(results[i].read) # results[i].arc.Desig
    /\ \A j \in DOMAIN results[i].arc.refs :
          results[i].arc.refs[j] < results[i].read
    /\ i < Len(results) /\ results[i + 1].err = NilError
          => results[i + 1].arc.refs[1] = results[i].read
    /\ i = Len(results) /\ ~panicked => o = results[i].read

\* call i ended because line results[i].read failed (the error follows)
ParseFailure(i) ==
    /\ results[i].read >= 1
    /\ Fails(results[i].read)
    /\ IF i < Len(results)
       THEN IsParseError(results[i + 1].err)
                /\ results[i + 1].read = results[i].read
       ELSE IsParseError(err)

\* call i ended because the stream ended
EndOfInput(i) ==
    /\ results[i].atEnd
    /\ rObs.end = "EOF"
    /\ results[i].read = Len(rObs.lines)

C3_BreaksOnlyAtBoundaries ==
    \A i \in DOMAIN results :
        results[i].err = NilError =>
            /\ DesigChange(i) \/ ParseFailure(i) \/ EndOfInput(i)
            /\ i < Len(results) /\ results[i + 1].err = NilError
                  => results[i + 1].arc.Desig # results[i].arc.Desig
            /\ \A q \in 1..results[i].read :
                  (/\ Decodes(q)
                   /\ \A j \in DOMAIN results[i].arc.refs :
                         results[i].arc.refs[j] < q)
                      => DesigAt(q) # results[i].arc.Desig

\* two arcs are returned by consecutive calls
C3_Witness ==
    \E i \in DOMAIN results :
        /\ i < Len(results)
        /\ results[i].err = NilError
        /\ results[i + 1].err = NilError
        /\ Len(results[i].arc.Obs) >= 2

(***************************************************************************)
(* C4.  Every line that fails (wrong length, decode error, bad             *)
(* continuation) is reported by exactly one parse-error result: by the     *)
(* call that read it when no observation had accumulated, otherwise by the *)
(* call right after the one that returned the truncated arc, before any    *)
(* further line is read.                                                   *)
(***************************************************************************)
FailedUpTo(n) == {p \in 1..n : Fails(p)}

C5_ParseErrorsAreArcErrors ==
    \A i \in DOMAIN results :
        results[i].err.type \in {"nil", "EOF", "read", "ArcError"}

(***************************************************************************)
(* C6.  After a parse-error result the next call goes on with the line     *)
(* after the failed one, and the next arc returned begins with the first   *)
(* later line that decodes and holds no observation read before the        *)
(* failure.                                                                *)
(***************************************************************************)
C6_UsableAfterFailure ==
    \A i \in DOMAIN results :
        IsParseError(results[i].err) =>
            /\ i < Len(results) /\ results[i].read < Len(rObs.lines)
                  => results[i + 1].read > results[i].read
            /\ \A j \in (i + 1)..Len(results) :
                  (/\ results[j].err = NilError
                   /\ \A k \in (i + 1)..(j - 1) : results[k].err # NilError)
                  =>
                  /\ \A m \in DOMAIN results[j].arc.refs :
                        results[j].arc.refs[m] > results[i].read
                  /\ \E q \in (results[i].read + 1)..Len(rObs.lines) :
                        /\ results[j].arc.refs[1] = q
                        /\ Decodes(q)
                        /\ \A q2 \in (results[i].read + 1)..(q - 1) :
                              ~Decodes(q2)

\* an arc, then a parse failure, then an arc of the lines after it
C6_Witness ==
    \E i, j \in DOMAIN results :
        /\ i >= 2 /\ i < j
        /\ results[i - 1].err = NilError
        /\ IsParseError(results[i].err)
        /\ results[j].err = NilError
        /\ results[j].arc.refs[1] > results[i].read + 1

(***************************************************************************)
(* C7.  Once a call has returned io.EOF, every later call returns io.EOF   *)
(* with no arc, and reads nothing.                                         *)
(***************************************************************************)
C7_EOFIdempotent ==
    \A i, j \in DOMAIN results :
        (i < j /\ results[i].err = EOF) =>
            /\ results[j].err = EOF
            /\ results[j].arc.isNil
            /\ results[j].read = results[i].read

\* io.EOF is returned twice after the last arc
C7_Witness ==
    \E i \in DOMAIN results :
        /\ i >= 2 /\ i < Len(results)
        /\ results[i - 1].err = NilError
        /\ results[i].err = EOF
        /\ results[i + 1].err = EOF

(***************************************************************************)
(* C8.  io.EOF comes only after everything else: on a stream of n results  *)
(* (arcs and parse errors) call n+1 is the first to return io.EOF, and by  *)
(* then every decoded observation and every parse error has been returned. *)
(***************************************************************************)
\* the decoded lines that begin an arc: the first one, and each one that
\* follows a decoded line of another designation or a failed line
ArcStarts ==
    {p \in 1..Len(rObs.lines) :
        /\ Decodes(p)
        /\ \A q \in 1..(p - 1) :
              (Decodes(q) /\ \A q2 \in (q + 1)..(p - 1) : ~Decodes(q2))
                  => \/ DesigAt(q) # DesigAt(p)
                     \/ \E f \in (q + 1)..(p - 1) : Fails(f)}

ExpectedResults ==
    Cardinality(ArcStarts) + Cardinality(FailedUpTo(Len(rObs.lines)))

C8_EOFAfterAllResults ==
    \A i \in DOMAIN results :
        (results[i].err = EOF /\ \A k \in 1..(i - 1) : results[k].err # EOF) =>
            /\ i = ExpectedResults + 1
            /\ \A k \in 1..(i - 1) :
                  results[k].err = NilError \/ IsParseError(results[k].err)
            /\ Len(ConcatRefs(results, i)) = Len(DecodedUpTo(Len(rObs.lines)))
            /\ Cardinality({k \in 1..(i - 1) : IsParseError(results[k].err)})
                  = Cardinality(FailedUpTo(Len(rObs.lines)))
            /\ err = NilError /\ o = 0

\* io.EOF is returned by the call after the one that returned the last arc,
\* which followed a parse error
C8_Witness ==
    \E i \in DOMAIN results :
        /\ i >= 3
        /\ IsParseError(results[i - 2].err)
        /\ results[i - 1].err = NilError
        /\ results[i - 1].atEnd
        /\ results[i].err = EOF

(***************************************************************************)
(* C9.  When the source reports a read error, the call returns that error  *)
(* itself (not wrapped in an ArcError, not io.EOF) and returns no arc.     *)
(***************************************************************************)
C9_ReadErrorDistinct ==
    \A i \in DOMAIN results :
        /\ results[i].err.type = "read" =>
              results[i].err = ReadError /\ results[i].arc.isNil
        /\ rObs.end = "ReadErr" =>
              /\ results[i].err # EOF
              /\ results[i].atEnd =>
                    results[i].err = ReadError /\ results[i].arc.isNil

\* a call that had accumulated observations returns the read error
C9_Witness ==
    \E i \in DOMAIN results :
        /\ results[i].atEnd
        /\ results[i].err = ReadError
        /\ a.Obs # <<>>
        /\ i > 1 => results[i].read > results[i - 1].read

C10_ContinuationAt(p, before, after) ==
    IF before.o.kind # "SatObs"
    THEN ErrorAt(p) /\ Fails(p)
    ELSE IF after.pos = 0
    THEN ErrorAt(p)
    ELSE /\ ~ErrorAt(p)
         /\ after.pos = before.pos
         /\ after.o.Offset # ZeroCart
         /\ objs[after.pos] = after.o
         /\ \A i \in DOMAIN results :
               \A j \in DOMAIN results[i].arc.refs :
                   (/\ results[i].arc.refs[j] = after.pos
                    /\ results[i].read >= p
                    /\ \A p2 \in (p + 1)..results[i].read : ~IsSat2Line(p2))
                       => results[i].arc.Obs[j] = after.o

C10_WitnessFailures ==
    /\ Len(rObs.lines) = 4
    /\ IsSat2Line(1) /\ IsSat2Line(2) /\ IsSat2Line(4)
    /\ Decodes(3) /\ Decoded[rObs.lines[3]].o.kind = "SiteObs"
    /\ ErrorAt(1) /\ ErrorAt(2) /\ ErrorAt(4)

(***************************************************************************)
(* C11.  Every line read whose length is not 80, an empty line in the      *)
(* middle of the stream included, is reported as the ArcError "observation *)
(* line length" and enters no arc; io.EOF is returned only when the source *)
(* is exhausted: every line has been read and the source ended without a   *)
(* read error.                                                             *)
(***************************************************************************)
LengthError == ArcError(NewError("observation line length, want 80"))

C11_WrongLengthFails ==
    /\ \A p \in 1..s :
          Len(Lines[rObs.lines[p]]) # 80 =>
              /\ \/ \E i \in DOMAIN results :
                       results[i].read = p /\ results[i].err = LengthError
                 \/ s = p /\ err = LengthError
              /\ \A i \in DOMAIN results :
                    \A j \in DOMAIN results[i].arc.refs :
                        results[i].arc.refs[j] # p
    /\ \A i \in DOMAIN results :
          results[i].err = EOF =>
              results[i].read = Len(rObs.lines) /\ rObs.end = "EOF"
    /\ err = EOF => s = Len(rObs.lines) /\ rObs.end = "EOF"

\* an empty line in the middle of the stream has been reported, an arc of
\* later lines returned, and io.EOF returned at the end
C11_Witness ==
    \E p \in 1..s :
        /\ Lines[rObs.lines[p]] = ""
        /\ \E i, j, k \in DOMAIN results :
              /\ i < j /\ j < k
              /\ results[i].read = p /\ results[i].err = LengthError
              /\ results[j].err = NilError /\ results[j].arc.refs[1] > p
              /\ results[k].err = EOF

(***************************************************************************)
(* The Modified Julian Date the formula of the date algorithm gives for    *)
(* the date x, with Div the integer division it divides with.              *)
(***************************************************************************)
FloorDiv(x, y) == x \div y

TruncDiv(x, y) == IF x >= 0 THEN x \div y ELSE 0 - ((0 - x) \div y)

FormulaZ(x, Div(_, _)) == x.Y + Div(x.M - 14, 12)

FormulaMJD(x, Div(_, _)) ==
    Norm(<<0, 306, 337, 0, 31, 61, 92, 122, 153, 184, 214, 245, 275>>[x.M + 1]
            + 365 * FormulaZ(x, Div) + Div(FormulaZ(x, Div), 4)
            - Div(FormulaZ(x, Div), 100) + Div(FormulaZ(x, Div), 400)
            - 678882 + x.D,
         x.frac.f, x.frac.e)

(***************************************************************************)
(* C13 as stated.  For every year, month 1..12 and day ParseObs80Date      *)
(* returns table[M] + 365*z + floor(z/4) - floor(z/100) + floor(z/400)     *)
(* - 678882 + D with z = Y + floor((M-14)/12).                             *)
(***************************************************************************)
C13_FloorFormula ==
    \A k \in DOMAIN dates :
        dates[k] # NotCalled =>
            dates[k] = [res |-> "ok", mjd |-> FormulaMJD(dargs[k], FloorDiv)]

(***************************************************************************)
(* C13 amended.  For every year, month 1..12 and day ParseObs80Date        *)
(* returns table[M] + 365*z + z/4 - z/100 + z/400 - 678882 + D with        *)
(* z = Y + (M-14)/12, every division being the integer division that       *)
(* truncates toward zero: z = Y - 1 for months 1 and 2, z = Y for months   *)
(* 3 to 12.                                                                *)
(***************************************************************************)
C13_TruncFormula ==
    \A k \in DOMAIN dates :
        dates[k] # NotCalled =>
            /\ dates[k] = [res |-> "ok", mjd |-> FormulaMJD(dargs[k], TruncDiv)]
            /\ FormulaZ(dargs[k], TruncDiv)
                  = IF dargs[k].M <= 2 THEN dargs[k].Y - 1 ELSE dargs[k].Y

\* the function has returned for the last day of a February, with decimals,
\* and for the 1 March after it
C13_Witness ==
    /\ dates[1].res = "ok"
    /\ dates[2].res = "ok"
    /\ dargs[1].M = 2 /\ dargs[2].M = 3
    /\ dargs[1].frac.str = ".40285"

(***************************************************************************)
(* C14.  ParseObs80Date returns the Modified Julian Date of the civil      *)
(* date: "2014 09 04.8" gives 56904.8, and for every calendar date of the  *)
(* years modelled the whole-day MJD of the next calendar day is one more   *)
(* than that of the day (the decimals are the same), across the ends of    *)
(* months and years and in leap years.                                     *)
(***************************************************************************)
C14_NextDayIsOneMore ==
    /\ \A k \in DOMAIN dates :
          (dates[k] # NotCalled /\ DateString(dargs[k]) = "2014 09 04.8") =>
              dates[k] = [res |-> "ok", mjd |-> [i |-> 56904, f |-> 8, e |-> 1]]
    /\ (/\ dates[1] # NotCalled /\ dates[2] # NotCalled
        /\ IsCalendarDate(dargs[1]) /\ ~dargs[1].blank) =>
            /\ dargs[2] = NextDay(dargs[1])
            /\ dates[1].res = "ok"
            /\ dates[2].res = "ok"
            /\ dates[2].mjd = DecAdd(dates[1].mjd, IntDec(1))

\* the function has returned for 29 February 2000 and for 1 March 2000
C14_Witness ==
    /\ dargs[1].Y = 2000 /\ dargs[1].M = 2 /\ dargs[1].D = 29
    /\ dargs[2].M = 3 /\ dargs[2].D = 1
    /\ dates[1].res = "ok"
    /\ dates[2].res = "ok"

\* the function has returned for 31 December 1900 and 1 January 1901
C14_WitnessYearEnd ==
    /\ dargs[1].Y = 1900 /\ dargs[1].M = 12 /\ dargs[1].D = 31
    /\ dargs[2].Y = 1901
    /\ dates[1].res = "ok"
    /\ dates[2].res = "ok"

(***************************************************************************)
(* C15.  For every date with a day below 10, ParseObs80Date called with    *)
(* the day written ' d' (and its decimals) returns ok = true and the MJD   *)
(* it returns for the day written '0d'.                                    *)
(***************************************************************************)
C15_BlankDayTolerated ==
    (dargs # <<>> /\ dargs[1].blank) =>
        /\ DateString(dargs[2])
              = SubSeq(DateString(dargs[1]), 1, 8) \o "0"
                   \o SubSeq(DateString(dargs[1]), 10, Len(DateString(dargs[1])))
        /\ dates[1] # NotCalled => dates[1].res = "ok"
        /\ (dates[1] # NotCalled /\ dates[2] # NotCalled) => dates[1] = dates[2]

\* the function has returned for " 4.8" and for "04.8" of one month
C15_Witness ==
    /\ dargs # <<>>
    /\ dargs[1].blank /\ dargs[1].D = 4 /\ dargs[1].frac.str = ".8"
    /\ dates[1].res = "ok"
    /\ dates[2].res = "ok"

(***************************************************************************)
(* C12.  ParseObs80 is total: every call returns, either an observation    *)
(* with a nil error or no observation with a non-nil error; a line whose   *)
(* length is not 80 gives an error.                                        *)
(***************************************************************************)
C12_ParseObs80Total ==
    parsed # NotParsed =>
        /\ parsed.res \in {"ok", "err"}
        /\ parsed.res = "ok" => parsed.o # NilObs /\ parsed.err = NilError
        /\ parsed.res = "err" => parsed.o = NilObs /\ parsed.err # NilError
        /\ largs.len # 80 => parsed.res = "err"

(***************************************************************************)
(* C16.  The magnitude ParseObs80 returns is the number of the magnitude   *)
(* field, unchanged for band 'V', less 0.8 for band 'B', plus 0.4 for any  *)
(* other band character, the blank included; with a blank magnitude field  *)
(* decoding succeeds and the magnitude is zero whatever the band.          *)
(***************************************************************************)
\* the length, date and angles of x are ones ParseObs80 accepts
DateAndAnglesGood(x) ==
    /\ x.len = 80
    /\ x.year = "2014"
    /\ x.month \in {"09", "00"}
    /\ x.day = "03.40285"
    /\ x.ra = "02 53 00.70 "
    /\ x.dec \in {"+10 38 30.3 ", "-10 38 30.3 "}

\* the fields of x other than magnitude and band are ones ParseObs80 accepts
OtherFieldsGood(x) == DateAndAnglesGood(x) /\ x.site \in DOMAIN pMap

ExpectedVMag(x) ==
    IF x.mag.blank THEN Zero
    ELSE IF x.band = "V" THEN x.mag.v
    ELSE IF x.band = "B" THEN DecAdd(x.mag.v, [i |-> -1, f |-> 2, e |-> 1])
    ELSE DecAdd(x.mag.v, [i |-> 0, f |-> 4, e |-> 1])

C16_BandCorrection ==
    parsed # NotParsed =>
        /\ parsed.res = "ok" =>
              largs.mag.ok /\ parsed.o.VMag = ExpectedVMag(largs)
        /\ (OtherFieldsGood(largs) /\ largs.mag.ok) => parsed.res = "ok"
        /\ (OtherFieldsGood(largs) /\ largs.mag.blank) =>
              parsed.res = "ok" /\ parsed.o.VMag = Zero

\* 19.2 of band B has been decoded as 18.4, and 9.5 of a blank band as 9.9
C16_Witness ==
    /\ parsed.res = "ok"
    /\ \/ /\ largs.mag.str = "19.2 " /\ largs.band = "B"
          /\ parsed.o.VMag = [i |-> 18, f |-> 4, e |-> 1]
       \/ /\ largs.mag.str = " 9.5 " /\ largs.band = " "
          /\ parsed.o.VMag = [i |-> 9, f |-> 9, e |-> 1]

\* a line with a blank magnitude and band B has been decoded
C16_WitnessBlank ==
    /\ parsed.res = "ok"
    /\ largs.mag.blank /\ largs.band = "B"

(***************************************************************************)
(* C17.  A site code that is not in the map gives no observation, and an   *)
(* error wherever the fields before it are accepted.  Of a code in the     *)
(* map, the observation is a satellite observation with Sat the site code  *)
(* if the code maps to nil or column 15 is 'S', else a site observation    *)
(* with the parallax constant looked up; Qual is the site code in both.    *)
(***************************************************************************)
C17_KindFromSiteAndColumn15 ==
    parsed # NotParsed =>
        /\ largs.site \notin DOMAIN pMap =>
              /\ parsed.res # "ok"
              /\ parsed.o = NilObs
              /\ (DateAndAnglesGood(largs) /\ largs.mag.ok) =>
                    /\ parsed.res = "err"
                    /\ parsed.err
                          = NewError("ParseObs80: Unknown observatory code")
        /\ parsed.res = "ok" =>
              /\ parsed.o.Qual = largs.site
              /\ IF pMap[largs.site] = NilPar \/ largs.c15 = "S"
                 THEN /\ parsed.o.kind = "SatObs"
                      /\ parsed.o.Sat = largs.site
                 ELSE /\ parsed.o.kind = "SiteObs"
                      /\ parsed.o.Par = pMap[largs.site]
                      /\ parsed.o.Par # NilPar

\* a line of a site with parallax constants and 'S' in column 15 has been
\* decoded as a satellite observation
C17_Witness ==
    /\ parsed.res = "ok"
    /\ largs.site = "703" /\ largs.c15 = "S"
    /\ parsed.o.kind = "SatObs"

\* a line of a site that maps to nil, one of a site with constants and one
\* of a site that is not in the map have been decoded
C17_WitnessOthers ==
    \/ parsed.res = "ok" /\ largs.site = "250" /\ largs.c15 = "C"
          /\ parsed.o.kind = "SatObs"
    \/ parsed.res = "ok" /\ largs.site = "644" /\ largs.c15 = "C"
          /\ parsed.o.kind = "SiteObs"
    \/ parsed.res = "err" /\ largs.site = "291" /\ DateAndAnglesGood(largs)

(***************************************************************************)
(* C18.  ParseSat2 merges the continuation line if and only if it names    *)
(* the designation, the MJD and the site code of line one and its offset   *)
(* fields are well-formed; in every other case, a malformed date or offset *)
(* included, it returns an error.                                          *)
(***************************************************************************)
\* the fields x name the designation, MJD and site of tcSatLine1, in
\* well-formed date and offsets
Sat2Matches(x) ==
    /\ x.desig = "03620       "
    /\ x.date \in {"1996 08 30.51477 ", "1996 08 30.514770"}
    /\ x.site = "250"
    /\ x.x \in {"-  344.3553 ", "+  344.3553 ", "   344.3553 "}
    /\ x.y = "- 6919.1239 "
    /\ x.z = "+  872.2948 "

C18_MergeOnlyIfSame ==
    merged # NotMerged =>
        IF Sat2Matches(sargs)
        THEN /\ merged.res = "ok"
             /\ merged.err = NilError
             /\ merged.s1.Offset # ZeroCart
             /\ [merged.s1 EXCEPT !.Offset = ZeroCart] = Line1.o
        ELSE /\ merged.res = "err"
             /\ merged.err # NilError


(***************************************************************************)
(* Tracklets (TrackSpec)                                                   *)
(***************************************************************************)
\* the observer of the observation with (0-based) index i
ObserverAt(i) == ts[i + 1].observer

\* the time of the observation with (0-based) index i
TimeAt(i) == ts[i + 1].mjd

\* C19: every tracklet FindTrackletsIndex returns holds indices of
\* observations of one observer only, however the observers' times interleave
C19_SingleObserver ==
    found.done =>
        \A k \in DOMAIN found.index :
            \A i, j \in DOMAIN found.index[k] :
                ObserverAt(found.index[k][i]) = ObserverAt(found.index[k][j])

\* a tracklet of two or more observations was returned although another
\* observer observed between two of its members
C19_Witness ==
    /\ found.done
    /\ \E k \in DOMAIN found.index :
          \E i, j \in DOMAIN found.index[k] :
              \E c \in 0..(Len(ts) - 1) :
                  /\ ObserverAt(c) # ObserverAt(found.index[k][i])
                  /\ TimeAt(found.index[k][i]) < TimeAt(c)
                  /\ TimeAt(c) < TimeAt(found.index[k][j])

RECURSIVE SumTimes(_)
\* the sum of the times of a tracklet's members
SumTimes(tr) == IF tr = <<>> THEN 0 ELSE TimeAt(Head(tr)) + SumTimes(Tail(tr))

\* mean(x) <= mean(y), the means being SumTimes / Len
MeanLeq(x, y) == SumTimes(x) * Len(y) <= SumTimes(y) * Len(x)

\* C20: the tracklets are returned in ascending order of the mean time of
\* their members: mean(i) <= mean(i+1) for consecutive tracklets, whatever
\* their observers
C20_AscendingMean ==
    found.done =>
        \A k \in 1..(Len(found.index) - 1) :
            MeanLeq(found.index[k], found.index[k + 1])

\* three tracklets of strictly growing mean were returned, the middle one of
\* another observer than its neighbours, the first of two observations
C20_Witness ==
    /\ found.done
    /\ Len(found.index) = 3
    /\ Len(found.index[1]) = 2
    /\ ~MeanLeq(found.index[2], found.index[1])
    /\ ~MeanLeq(found.index[3], found.index[2])
    /\ ObserverAt(found.index[2][1]) # ObserverAt(found.index[1][1])
    /\ ObserverAt(found.index[2][1]) # ObserverAt(found.index[3][1])


(***************************************************************************)
(* Two calls (AgainSpec)                                                   *)
(***************************************************************************)
\* how often the entity e, a (time, observer), is a member of the tracklet
\* tr of the observations obsv
MemberCount(obsv, tr, e) == Cardinality({k \in DOMAIN tr : obsv[tr[k] + 1] = e})

\* the tracklets x (of obsv1) and y (of obsv2) are the same group of
\* entities
SameGroup(obsv1, x, obsv2, y) ==
    /\ Len(x) = Len(y)
    /\ \A k \in DOMAIN x :
          MemberCount(obsv1, x, obsv1[x[k] + 1]) = MemberCount(obsv2, y, obsv1[x[k] + 1])

\* how many tracklets of index2 (of obsv2) are the group x (of obsv1)
GroupCount(obsv1, x, obsv2, index2) ==
    Cardinality({k \in DOMAIN index2 : SameGroup(obsv1, x, obsv2, index2[k])})

\* C21: the tracklets returned for the observations in another order are,
\* as groups of (time, observer) entities, those returned for the original
\* order
C21_OrderInvariant ==
    again.done =>
        /\ Len(again.index) = Len(found.index)
        /\ \A k \in DOMAIN found.index :
              GroupCount(ts, found.index[k], shuffled, again.index)
                  = GroupCount(ts, found.index[k], ts, found.index)

\* the second call had the observations in another order, not sorted by
\* time, and the calls returned two or more tracklets, one of them of two
\* or more observations
C21_Witness ==
    /\ again.done
    /\ shuffled # ts
    /\ \E k \in 1..(Len(shuffled) - 1) : shuffled[k + 1].mjd < shuffled[k].mjd
    /\ Len(again.index) >= 2
    /\ \E k \in DOMAIN again.index : Len(again.index[k]) >= 2

\* C22: two calls with the same observations in the same order return the
\* same tracklets in the same order, also when tracklets of different
\* observers have equal means or observations of one observer equal times
C22_Deterministic == (again.done /\ shuffled = ts) => again.index = found.index


(***************************************************************************)
(* FindTrackletsIndex step by step (StepSpec, StepFairSpec)                *)
(***************************************************************************)
\* sub is a part of set without gaps, not empty and shorter than set
ShorterPart(sub, set) ==
    /\ sub # <<>>
    /\ Len(sub) < Len(set)
    /\ \E k \in 1..Len(set) : sub = SubSeq(set, k, k + Len(sub) - 1)

\* nothing has failed, and the last call of reduce called reduce only for
\* shorter parts of its argument
C23_NoErrorShorterParts ==
    /\ pos # "panic"
    /\ \A k \in DOMAIN lastReduce.calls :
          lastReduce.calls[k].op = "reduce"
              => ShorterPart(lastReduce.calls[k].set, lastReduce.set)

\* no observation gives the empty list, which is not nil; one observation
\* gives the one tracklet of index 0
C23_EmptyAndSingle ==
    pos = "returned" =>
        /\ ts = <<>> => (found.index = <<>> /\ ~found.isNil)
        /\ Len(ts) = 1 => found.index = << <<0>> >>

C23_WitnessEmpty == pos = "returned" /\ ts = <<>>

\* the call returned for one observation
C23_WitnessSingle == pos = "returned" /\ Len(ts) = 1


\* the time from the first to the last of set, in thousandths of a day
Span(set) == set[Len(set)].mjd - set[1].mjd

\* the call r of reduce accepted its argument whole: it called appendTl for
\* it and nothing else
AcceptedWhole(r) == r.calls = <<[op |-> "appendTl", set |-> r.set]>>

\* C24: reduce accepts a list whole as one tracklet when the time from its
\* first to its last observation is below 0.042 day, whatever its length,
\* and when it has 5 observations or fewer and that time is below 0.125
\* day; both before any split
C24_AcceptedBeforeSplit ==
    (/\ lastReduce.set # <<>>
     /\ \/ Span(lastReduce.set) < 42
        \/ Len(lastReduce.set) <= 5 /\ Span(lastReduce.set) < 125)
        => AcceptedWhole(lastReduce)

\* six observations within 0.042 day were accepted whole
C24_Witness ==
    /\ Len(lastReduce.set) = 6
    /\ Span(lastReduce.set) < 42
    /\ AcceptedWhole(lastReduce)

\* five observations over 0.042 day or more, but less than 0.125 day, were
\* accepted whole
C24_WitnessThreeHours ==
    /\ Len(lastReduce.set) = 5
    /\ Span(lastReduce.set) >= 42
    /\ Span(lastReduce.set) < 125
    /\ AcceptedWhole(lastReduce)

\* the first of the longest gaps of set: the number of observations before
\* it
FirstLongestGap(set) ==
    CHOOSE k \in 1..(Len(set) - 1) :
        /\ \A j \in 1..(Len(set) - 1) :
              set[j + 1].mjd - set[j].mjd <= set[k + 1].mjd - set[k].mjd
        /\ \A j \in 1..(k - 1) :
              set[j + 1].mjd - set[j].mjd < set[k + 1].mjd - set[k].mjd

\* set before its longest gap
LeftOf(set) == SubSeq(set, 1, FirstLongestGap(set))

\* set after its longest gap
RightOf(set) == SubSeq(set, FirstLongestGap(set) + 1, Len(set))

\* none of the rules for a whole list that come before the split applies
SplitReached(set) ==
    /\ Len(set) >= 3
    /\ Span(set) >= 42
    /\ ~(Len(set) <= 5 /\ Span(set) < 125)

\* both parts have three observations or more
BothLong(lf, rt) == Len(lf) >= 3 /\ Len(rt) >= 3

\* x has exactly two observations, less than 0.5 day apart, and y has two
\* or more
PairBeside(x, y) == Len(x) = 2 /\ x[2].mjd - x[1].mjd < 500 /\ Len(y) >= 2

\* one of the three rules for the two parts applies
PartsRule(lf, rt) == BothLong(lf, rt) \/ PairBeside(lf, rt) \/ PairBeside(rt, lf)

\* C26 as stated: reduce accepts whole every list whose time from first to
\* last observation is below 0.25 day, whatever its length
C26_SixHoursAlwaysWhole ==
    (lastReduce.set # <<>> /\ Span(lastReduce.set) < 250) => AcceptedWhole(lastReduce)

\* C26: reduce accepts whole every list whose time from first to last
\* observation is below 0.25 day, whatever its length, unless one of the
\* rules for the parts on the two sides of its longest gap comes first
C26_SixHoursAfterParts ==
    (/\ lastReduce.set # <<>>
     /\ Span(lastReduce.set) < 250
     /\ ~(/\ SplitReached(lastReduce.set)
          /\ PartsRule(LeftOf(lastReduce.set), RightOf(lastReduce.set))))
        => AcceptedWhole(lastReduce)

\* four or more observations over 0.125 day or more, but less than 0.25 day,
\* were accepted whole: no earlier rule did it
C26_Witness ==
    /\ Len(lastReduce.set) >= 4
    /\ Span(lastReduce.set) >= 125
    /\ Span(lastReduce.set) < 250
    /\ AcceptedWhole(lastReduce)

\* the calls the rules for the two parts lf and rt ask for
PartsCalls(lf, rt) ==
    IF BothLong(lf, rt)
    THEN <<[op |-> "reduce", set |-> lf], [op |-> "reduce", set |-> rt]>>
    ELSE IF PairBeside(lf, rt)
    THEN <<[op |-> "appendTl", set |-> lf], [op |-> "reduce", set |-> rt]>>
    ELSE <<[op |-> "reduce", set |-> lf], [op |-> "appendTl", set |-> rt]>>

\* C27: when no rule for the whole list applies before the split, the list
\* is split at its longest gap and, first match winning: both parts of three
\* or more are reduced; else a left part of two less than 0.5 day apart
\* beside a right part of two or more is accepted and the right part
\* reduced; else the same with left and right exchanged; all this before
\* the rules for three observations and for 0.25 day
C27_PartsRulesInOrder ==
    (/\ lastReduce.set # <<>>
     /\ SplitReached(lastReduce.set)
     /\ PartsRule(LeftOf(lastReduce.set), RightOf(lastReduce.set)))
        => lastReduce.calls = PartsCalls(LeftOf(lastReduce.set), RightOf(lastReduce.set))

\* a list of less than 0.25 day was not accepted whole: its left part of two
\* was accepted and its right part reduced
C27_Witness ==
    /\ lastReduce.set # <<>>
    /\ SplitReached(lastReduce.set)
    /\ Span(lastReduce.set) < 250
    /\ PairBeside(LeftOf(lastReduce.set), RightOf(lastReduce.set))
    /\ lastReduce.calls = <<[op |-> "appendTl", set |-> LeftOf(lastReduce.set)],
                            [op |-> "reduce", set |-> RightOf(lastReduce.set)]>>

\* both parts were pairs less than 0.5 day apart: the left one was accepted
C27_WitnessBothPairs ==
    /\ lastReduce.set # <<>>
    /\ SplitReached(lastReduce.set)
    /\ PairBeside(LeftOf(lastReduce.set), RightOf(lastReduce.set))
    /\ PairBeside(RightOf(lastReduce.set), LeftOf(lastReduce.set))
    /\ lastReduce.calls = <<[op |-> "appendTl", set |-> LeftOf(lastReduce.set)],
                            [op |-> "reduce", set |-> RightOf(lastReduce.set)]>>

\* the right part of two was accepted and the left part reduced
C27_WitnessRight ==
    /\ lastReduce.set # <<>>
    /\ SplitReached(lastReduce.set)
    /\ ~PairBeside(LeftOf(lastReduce.set), RightOf(lastReduce.set))
    /\ PairBeside(RightOf(lastReduce.set), LeftOf(lastReduce.set))
    /\ lastReduce.calls = <<[op |-> "reduce", set |-> LeftOf(lastReduce.set)],
                            [op |-> "appendTl", set |-> RightOf(lastReduce.set)]>>

\* both parts of three were reduced
C27_WitnessBothLong ==
    /\ lastReduce.set # <<>>
    /\ SplitReached(lastReduce.set)
    /\ BothLong(LeftOf(lastReduce.set), RightOf(lastReduce.set))
    /\ Len(lastReduce.calls) = 2


(***************************************************************************)
(* Two observations of one observer (TrackSpec)                            *)
(***************************************************************************)
\* the (0-based) indices of the observations of the observer ob
IndicesOf(ob) == {i \in 0..(Len(ts) - 1) : ObserverAt(i) = ob}

\* the observer ob has exactly the two observations of indices e and l, e
\* not later than l
TwoOf(ob, e, l) == IndicesOf(ob) = {e, l} /\ e # l /\ TimeAt(e) <= TimeAt(l)

\* the tracklets returned that have the index i
TrackletsWith(i) ==
    {k \in DOMAIN found.index : \E j \in DOMAIN found.index[k] : found.index[k][j] = i}

\* one tracklet holds e and l, and nothing else
Together(e, l) ==
    \E k \in DOMAIN found.index :
        /\ TrackletsWith(e) = {k}
        /\ TrackletsWith(l) = {k}
        /\ Len(found.index[k]) = 2

\* e and l are a tracklet each, that of e returned before that of l
Apart(e, l) ==
    \E k, n \in DOMAIN found.index :
        /\ k < n
        /\ TrackletsWith(e) = {k}
        /\ TrackletsWith(l) = {n}
        /\ found.index[k] = <<e>>
        /\ found.index[n] = <<l>>

\* C25: two observations that are all those of their observer are returned
\* as one tracklet of both when less than 0.5 day apart, and as two
\* tracklets of one observation, the earlier first, when 0.5 day or more
\* apart
C25_TwoObservations ==
    found.done =>
        \A ob \in Observers : \A e, l \in 0..(Len(ts) - 1) :
            TwoOf(ob, e, l) =>
                IF TimeAt(l) - TimeAt(e) < 500 THEN Together(e, l) ELSE Apart(e, l)

\* the only two observations, 0.125 day or more but less than 0.5 day
\* apart, the later given first, were returned as one tracklet
C25_Witness ==
    /\ found.done
    /\ Len(ts) = 2
    /\ TwoOf(ObserverAt(0), 1, 0)
    /\ TimeAt(0) - TimeAt(1) >= 125
    /\ TimeAt(0) - TimeAt(1) < 500
    /\ Together(1, 0)

\* the only two observations, exactly 0.5 day apart, were returned as two
\* tracklets
C25_WitnessApart ==
    /\ found.done
    /\ Len(ts) = 2
    /\ TwoOf(ObserverAt(0), 0, 1)
    /\ TimeAt(1) - TimeAt(0) = 500
    /\ Apart(0, 1)


(***************************************************************************)
(* Times within an arc (Spec)                                              *)
(***************************************************************************)
\* for the lines j and k of Lines that ParseObs80 decodes: the time of j is
\* before that of k
TimeBefore ==
    [j \in DOMAIN Lines |-> [k \in DOMAIN Lines |->
        /\ Decoded[j].res = "ok"
        /\ Decoded[k].res = "ok"
        /\ DecLess(Decoded[j].o.MJD, Decoded[k].o.MJD)]]

\* the lines of Lines that ParseObs80 decodes to a time below zero
TimeNegative ==
    {k \in DOMAIN Lines : Decoded[k].res = "ok" /\ DecLess(Decoded[k].o.MJD, Zero)}

\* C30: in every arc ArcSplitter returns no observation time is negative
\* and each observation is later than the one before it in the list
C30_TimesIncrease ==
    \A i \in DOMAIN results :
        ~results[i].arc.isNil =>
            \A j \in DOMAIN results[i].arc.refs :
                /\ rObs.lines[results[i].arc.refs[j]] \notin TimeNegative
                /\ j > 1 =>
                      TimeBefore[rObs.lines[results[i].arc.refs[j - 1]]]
                                [rObs.lines[results[i].arc.refs[j]]]


(***************************************************************************)
(* Split (SplitSpec, SplitFairSpec)                                        *)
(***************************************************************************)
\* the arcs sent so far, in order
ArcsSent == SelectSeq(sent, LAMBDA m : m.ch = "arcCh")

\* the errors sent so far, in order
ErrorsSent == SelectSeq(sent, LAMBDA m : m.ch = "errCh")

\* an arc as the claim wants it: two observations or more, the first at a
\* time above zero, each later than the one before, the first and the last
\* at different places
ArcValid(arc) ==
    /\ Len(arc.Obs) >= 2
    /\ DecLess(Zero, arc.Obs[1].MJD)
    /\ \A j \in 1..(Len(arc.Obs) - 1) : DecLess(arc.Obs[j].MJD, arc.Obs[j + 1].MJD)
    /\ \/ arc.Obs[1].RA # arc.Obs[Len(arc.Obs)].RA
       \/ arc.Obs[1].Dec # arc.Obs[Len(arc.Obs)].Dec

\* what the line k is to Split, p being what ParseObs80 makes of it: its
\* class, "length" (not 80 characters), "sat2" (a continuation line) or the
\* outcome of ParseObs80; its designation and its observation
LineInfo(k, p) ==
    IF Len(SplitLines[k]) # 80 THEN [class |-> "length", desig |-> "", o |-> NilObs]
    ELSE IF At(SplitLines[k], 14) = "s" THEN [class |-> "sat2", desig |-> "", o |-> NilObs]
    ELSE IF p.res = "ok"
    THEN [class |-> "ok", desig |-> TrimSpace(Slice(SplitLines[k], 0, 12)), o |-> p.o]
    ELSE [class |-> p.res, desig |-> "", o |-> NilObs]

RECURSIVE InfosFrom(_, _, _)
\* LineInfo of each line of the stream lines, from the n-th on, after infos
InfosFrom(lines, n, infos) ==
    IF n > Len(lines) THEN infos
    ELSE InfosFrom(lines, n + 1,
                   Append(infos, LineInfo(lines[n], ParseObs80(SplitLines[lines[n]], pMap))))

\* the groups done with the open group cur closed
Closed(done, cur) == IF cur = <<>> THEN done ELSE Append(done, cur)

RECURSIVE GroupsFrom(_, _, _, _)
\* the groups of a stream, infos telling what its lines are, from its n-th
\* line on: done are the groups that have ended before it, each the places
\* of its lines; cur is the group still open.  A decoded line goes on the
\* open group if it has its designation and otherwise ends it and opens the
\* next; a line that does not decode ends it; lines not of 80 characters
\* and continuation lines belong to no group and end none
GroupsFrom(infos, n, done, cur) ==
    IF n > Len(infos) THEN Closed(done, cur)
    ELSE IF infos[n].class \in {"length", "sat2"}
    THEN GroupsFrom(infos, n + 1, done, cur)
    ELSE IF infos[n].class # "ok"
    THEN GroupsFrom(infos, n + 1, Closed(done, cur), <<>>)
    ELSE IF cur # <<>> /\ infos[cur[1]].desig = infos[n].desig
    THEN GroupsFrom(infos, n + 1, done, Append(cur, n))
    ELSE GroupsFrom(infos, n + 1, Closed(done, cur), <<n>>)

\* the observations of the group g
GroupArc(infos, g) == [Obs |-> [j \in DOMAIN g |-> infos[g[j]].o]]

\* the groups that make an arc as the claim wants it
ValidOf(infos, grps) == SelectSeq(grps, LAMBDA g : ArcValid(GroupArc(infos, g)))

\* the groups of two lines or more that do not
DroppedOf(infos, grps) ==
    SelectSeq(grps, LAMBDA g : Len(g) >= 2 /\ ~ArcValid(GroupArc(infos, g)))

\* a dropped group whose first time is not above zero
DroppedOld(infos, grps) ==
    SelectSeq(DroppedOf(infos, grps),
              LAMBDA g : ~DecLess(Zero, infos[g[1]].o.MJD)) # <<>>

\* a dropped group of three with increasing times: its last place is its
\* first
DroppedStill(infos, grps) ==
    SelectSeq(DroppedOf(infos, grps),
              LAMBDA g : /\ Len(g) = 3
                         /\ \A i \in 1..2 :
                               DecLess(infos[g[i]].o.MJD, infos[g[i + 1]].o.MJD)) # <<>>

\* all the groups of the stream lines
GroupsIn(lines) == GroupsFrom(InfosFrom(lines, 1, <<>>), 1, <<>>, <<>>)

\* with infos telling what the lines of the stream are
ValidIn(infos) == ValidOf(infos, GroupsFrom(infos, 1, <<>>, <<>>))

\* the groups of the stream lines that make an arc as the claim wants it
ValidGroups(lines) == ValidIn(InfosFrom(lines, 1, <<>>))

\* the lines the arcs sent came from
RefsSent == [j \in DOMAIN ArcsSent |-> ArcsSent[j].msg.refs]

\* x is the beginning of y
IsPrefix(x, y) == Len(x) <= Len(y) /\ x = SubSeq(y, 1, Len(x))

\* the arcs sent are the first of the groups valid, in order, and all of
\* them once Split has returned
SentOf(valid) ==
    /\ IsPrefix(RefsSent, valid)
    /\ sp.at = "done" => RefsSent = valid

\* C28: every arc Split sends on arcCh has two observations or more, a
\* first time above zero, strictly increasing times and a last place
\* different from the first; the groups of lines that do not make such an
\* arc are dropped: the arcs sent are those of the other groups, in order,
\* and nothing but a failure of ReadLine is ever sent on errCh
C28_OnlyValidArcsSent ==
    /\ \A j \in DOMAIN ArcsSent : ArcValid(ArcsSent[j].msg)
    /\ SentOf(ValidGroups(iObs.lines))
    /\ ErrorsSent # <<>> =>
          /\ Len(ErrorsSent) = 1
          /\ iObs.end \in SplitEnds \ {"EOF"}
          /\ ErrorsSent[1].msg.type # "ArcError"

\* a group of the stream lines was dropped for its first time
OldIn(infos) == DroppedOld(infos, GroupsFrom(infos, 1, <<>>, <<>>))

\* a group of three of the stream lines with increasing times was dropped
StillIn(infos) == DroppedStill(infos, GroupsFrom(infos, 1, <<>>, <<>>))

\* Split has returned after sending one arc and dropping another group,
\* with nothing sent on errCh
C28_Witness ==
    /\ sp.at = "done"
    /\ Len(ArcsSent) = 1
    /\ ErrorsSent = <<>>
    /\ Len(GroupsIn(iObs.lines)) >= 2

\* a group was dropped for its first time, not above zero
C28_WitnessOld ==
    /\ sp.at = "done"
    /\ OldIn(InfosFrom(iObs.lines, 1, <<>>))

\* a group of three with increasing times was dropped
C28_WitnessStill ==
    /\ sp.at = "done"
    /\ ArcsSent = <<>>
    /\ StillIn(InfosFrom(iObs.lines, 1, <<>>))

\* the lines the arcs the consumer has received came from
RefsGot == [j \in DOMAIN consumer.got |-> consumer.got[j].refs]

\* arcCh was closed once at most, and no arc was sent on it after its close
ClosedOnce ==
    /\ arcCh.closed <= 1
    /\ \A j \in DOMAIN ArcsSent : ~ArcsSent[j].closed

\* arcCh is closed and empty, the consumer has stopped, and it has received
\* the arc of every valid group of the stream
Drained ==
    /\ arcCh.closed = 1
    /\ arcCh.buf = <<>>
    /\ consumer.state = "done"
    /\ RefsGot = ValidGroups(iObs.lines)

\* C29: whether the stream ends or ReadLine fails, and with a consumer that
\* receives from arcCh until it is closed, Split closes arcCh in the end,
\* once, after every arc accumulated was delivered; the consumer then
\* stops, and nothing is sent on arcCh after the close
C29_ClosedAndDrained == []ClosedOnce /\ <>[]Drained

(***************************************************************************)
(* The place of the split (StepSpec)                                       *)
(***************************************************************************)
\* the k-th gap of set: the time from its k-th observation to the next
Gap(set, k) == set[k + 1].mjd - set[k].mjd

\* the call r of reduce has split its argument: it made two calls, for two
\* parts
HasSplit(r) == Len(r.calls) = 2

\* the gap after the k-th observation of set is a longest one, and the
\* first of them
AtFirstLongest(set, k) ==
    /\ \A j \in 1..(Len(set) - 1) : Gap(set, j) <= Gap(set, k)
    /\ \A j \in 1..(k - 1) : Gap(set, j) < Gap(set, k)

\* C32: when reduce splits a list, the two parts are not empty and make up
\* the list, and the left part ends at a longest gap between consecutive
\* observations, the first of them if several are equally long
C32_SplitAtFirstLongestGap ==
    HasSplit(lastReduce) =>
        /\ lastReduce.calls[1].set # <<>>
        /\ lastReduce.calls[2].set # <<>>
        /\ lastReduce.calls[1].set \o lastReduce.calls[2].set = lastReduce.set
        /\ AtFirstLongest(lastReduce.set, Len(lastReduce.calls[1].set))

\* a list with two equally long longest gaps was split at the first
C32_Witness ==
    /\ HasSplit(lastReduce)
    /\ Len(lastReduce.set) >= 3
    /\ \E j \in (Len(lastReduce.calls[1].set) + 1)..(Len(lastReduce.set) - 1) :
          Gap(lastReduce.set, j) = Gap(lastReduce.set, Len(lastReduce.calls[1].set))

\* a list was split at a longest gap that is not its first gap
C32_WitnessLater ==
    /\ HasSplit(lastReduce)
    /\ Len(lastReduce.calls[1].set) >= 2
    /\ Len(lastReduce.calls[2].set) >= 2

(***************************************************************************)
(* The tracklets as a partition (TrackSpec)                                *)
(***************************************************************************)
\* the places of the index i in the list returned: the tracklet and the
\* position in it
PlacesOf(i) ==
    {<<k, j>> \in (DOMAIN found.index) \X (1..Len(ts)) :
        j \in DOMAIN found.index[k] /\ found.index[k][j] = i}

\* C33: the tracklets FindTrackletsIndex returns partition the input: no
\* tracklet is empty or longer than the input, every member is an index
\* from 0 to len(ts)-1, and every such index is at exactly one place
C33_Partition ==
    found.done =>
        /\ \A k \in DOMAIN found.index :
              /\ found.index[k] # <<>>
              /\ Len(found.index[k]) <= Len(ts)
              /\ \A j \in DOMAIN found.index[k] :
                    found.index[k][j] \in 0..(Len(ts) - 1)
        /\ \A i \in 0..(Len(ts) - 1) : Cardinality(PlacesOf(i)) = 1

\* four observations of two observers came back as two tracklets or more,
\* one of them of two or more
C33_Witness ==
    /\ found.done
    /\ Len(ts) = 4
    /\ \E i, j \in 0..3 : ObserverAt(i) # ObserverAt(j)
    /\ Len(found.index) >= 2
    /\ \E k \in DOMAIN found.index : Len(found.index[k]) >= 2

(***************************************************************************)
(* The time a tracklet spans (StepSpec)                                    *)
(***************************************************************************)
\* the members of the tracklet tr are all less than d thousandths of a day
\* apart: from its earliest to its latest is less than d
Within(tr, d) ==
    \A i, j \in DOMAIN tr : TimeAt(tr[j]) - TimeAt(tr[i]) < d

\* C34: every tracklet FindTrackletsIndex returns spans less than 0.5 day
\* from its earliest to its latest member, and less than 0.25 day if it has
\* four members or more
C34_SpanBounded ==
    found.done =>
        \A k \in DOMAIN found.index :
            /\ Within(found.index[k], 500)
            /\ Len(found.index[k]) >= 4 => Within(found.index[k], 250)

\* a tracklet of four members or more spanning 0.125 day or more was
\* returned
C34_Witness ==
    /\ found.done
    /\ \E k \in DOMAIN found.index :
          Len(found.index[k]) >= 4 /\ ~Within(found.index[k], 125)

\* a tracklet of three spanning 0.25 day or more was returned
C34_WitnessThree ==
    /\ found.done
    /\ \E k \in DOMAIN found.index :
          Len(found.index[k]) = 3 /\ ~Within(found.index[k], 250)

(***************************************************************************)
(* The order within a tracklet and the stretches of an observer (TrackSpec)*)
(***************************************************************************)
\* the members of the tracklet tr are listed in the order of their times
TimeOrdered(tr) ==
    \A j \in 1..(Len(tr) - 1) : TimeAt(tr[j]) <= TimeAt(tr[j + 1])

\* the observation c is a member of the tracklet tr
MemberOf(c, tr) == \E j \in DOMAIN tr : tr[j] = c

\* the observation c, of the observer of the tracklet tr and not a member
\* of it, lies strictly between two of its members in time
Intrudes(c, tr) ==
    /\ ~MemberOf(c, tr)
    /\ ObserverAt(c) = ObserverAt(tr[1])
    /\ \E i, j \in DOMAIN tr :
          TimeAt(tr[i]) < TimeAt(c) /\ TimeAt(c) < TimeAt(tr[j])

\* C35: every tracklet FindTrackletsIndex returns lists its indices in
\* non-decreasing order of time, and no observation of its observer that
\* is not a member lies strictly between two of its members in time
C35_OrderedStretches ==
    found.done =>
        \A k \in DOMAIN found.index :
            /\ TimeOrdered(found.index[k])
            /\ \A c \in 0..(Len(ts) - 1) : ~Intrudes(c, found.index[k])

\* observations given out of order: an observer has two tracklets, one of
\* them listing a later index before an earlier one
C35_Witness ==
    /\ found.done
    /\ \E k, l \in DOMAIN found.index :
          /\ k # l
          /\ ObserverAt(found.index[k][1]) = ObserverAt(found.index[l][1])
          /\ Len(found.index[k]) >= 2
          /\ found.index[k][1] > found.index[k][2]
          /\ TimeAt(found.index[k][1]) < TimeAt(found.index[k][2])

(***************************************************************************)
(* A second continuation line (Spec)                                       *)
(***************************************************************************)
\* C36: a continuation line is accepted only for a satellite first line
\* that has had no continuation line merged yet: a continuation line that
\* follows a merged continuation line is a parse failure
C36_SecondContinuationFails ==
    \A p \in 2..s :
        (IsSat2Line(p - 1) /\ IsSat2Line(p) /\ ~ErrorAt(p - 1)) => ErrorAt(p)

(***************************************************************************)
(* What ParseSat2 leaves of the observation (Sat2Spec)                     *)
(***************************************************************************)
\* the fields x pass every test but those of the offsets y and z
OnlyLaterOffsetsBad(x) ==
    /\ x.desig = "03620       "
    /\ x.date \in {"1996 08 30.51477 ", "1996 08 30.514770"}
    /\ x.site = "250"
    /\ x.x \in {"-  344.3553 ", "+  344.3553 ", "   344.3553 "}
    /\ x.y # "- 6919.1239 " \/ x.z # "+  872.2948 "

\* C37: when ParseSat2 returns an error the satellite observation passed
\* in is as it was; what it was is changed only when the designation, the
\* date, the site code and the three offsets have all passed, and then only
\* in its offset
C37_UnchangedOnError ==
    merged # NotMerged =>
        /\ merged.res = "err" => merged.s1 = Line1.o
        /\ merged.s1 # Line1.o =>
              /\ merged.res = "ok"
              /\ Sat2Matches(sargs)
              /\ [merged.s1 EXCEPT !.Offset = Line1.o.Offset] = Line1.o

\* ParseSat2 returned an error after it had parsed the first offset: the
\* second or the third was malformed
C37_Witness ==
    /\ merged # NotMerged
    /\ merged.res = "err"
    /\ OnlyLaterOffsetsBad(sargs)

(***************************************************************************)
(* The arc object of ArcSplitter (Spec)                                    *)
(***************************************************************************)
\* what is seen now through a pointer to a: its designation and the
\* observations its list refers to
SeenNow ==
    [Desig |-> a.Desig,
     Obs   |-> [k \in 1..Len(a.Obs) |-> objs[a.Obs[k]]],
     refs  |-> a.Obs]

\* what the i-th call returned to be seen
SeenThen(i) ==
    [Desig |-> results[i].arc.Desig,
     Obs   |-> results[i].arc.Obs,
     refs  |-> results[i].arc.refs]

\* the i-th call returned an arc
ReturnedArc(i) == ~results[i].arc.isNil

\* the arc of the j-th call holds nothing of the arc of the i-th: each of
\* its observations was decoded from a later line
Refilled(i, j) ==
    \A x \in DOMAIN results[i].arc.refs :
        \A y \in DOMAIN results[j].arc.refs :
            results[i].arc.refs[x] < results[j].arc.refs[y]

C39_BlankMonthAccepted ==
    (dargs # <<>> /\ dargs[1].blankM /\ dates[1] # NotCalled) =>
        dates[1].res = "ok"


(***************************************************************************)
(* ReadObscodeDat: the parallax constants of obscode.dat                   *)
(***************************************************************************)
\* the value stored for a site without parallax constants
NilParallax ==
    [isNil |-> TRUE, Longitude |-> [v |-> Zero, unit |-> ""],
     RhoCosPhi |-> [v |-> Zero, unit |-> ""],
     RhoSinPhi |-> [v |-> Zero, unit |-> ""]]

\* a blank field: the variable is set to the literal 0
BlankField == [v |-> Zero, unit |-> "asis"]

\* rhoCosPhi *= sf, with sf = 6.37814e6 / 149.59787e9: the number read, in
\* Earth radii, and the factor applied to it
TimesSf(x) == [v |-> x, unit |-> "er_to_au"]

\* rhoCosPhi == 0, after the multiplication
IsZeroConst(q) == q.v = Zero

\* x <= y
DecLeq(x, y) == ~DecLess(y, x)

\* one pass of the loop body with || in place of && in the test for nil
ObscodeLine_NilOnEither(line) ==
    IF Len(line) < 30 THEN [keep |-> FALSE, code |-> "", val |-> NilParallax]
    ELSE
    LET skip  == [keep |-> FALSE, code |-> "", val |-> NilParallax]
        tl    == TrimSpace(Slice(line, 4, 13))
        tc    == TrimSpace(Slice(line, 13, 21))
        tsn   == TrimSpace(Slice(line, 21, 30))
        lon   == ParseFloat(tl)
        rcos  == ParseFloat(tc)
        rsin  == ParseFloat(tsn)
    IN  IF Len(tl) # 0 /\ (~lon.ok \/ DecLess(lon.v, Zero)
                            \/ DecLeq(IntDec(360), lon.v))
        THEN skip
        ELSE IF Len(tc) # 0 /\ (~rcos.ok \/ DecLess(rcos.v, Zero)
                                 \/ DecLess(IntDec(1), rcos.v))
        THEN skip
        ELSE IF Len(tsn) # 0 /\ (~rsin.ok \/ DecLess(rsin.v, IntDec(0 - 1))
                                  \/ DecLess(IntDec(1), rsin.v))
        THEN skip
        ELSE
        LET longitude == IF Len(tl) = 0 THEN Zero ELSE lon.v
            rhoCosPhi == IF Len(tc) = 0 THEN BlankField ELSE TimesSf(rcos.v)
            rhoSinPhi == IF Len(tsn) = 0 THEN BlankField ELSE TimesSf(rsin.v)
        IN  [keep |-> TRUE, code |-> Slice(line, 0, 3),
             val  |-> IF IsZeroConst(rhoCosPhi) \/ IsZeroConst(rhoSinPhi)
                      THEN NilParallax
                      ELSE [isNil |-> FALSE,
                            Longitude |-> [v |-> longitude, unit |-> "deg_to_rad"],
                            RhoCosPhi |-> rhoCosPhi,
                            RhoSinPhi |-> rhoSinPhi]]

\* one pass of the loop over the lines: keep tells whether the pass reaches
\* the assignment to ocdMap[line[0:3]], val is the value assigned.  (The
\* three variables declared before the loop are all assigned in a pass
\* before it reads them, so a pass does not depend on the passes before.)
ObscodeLine(line) ==
    IF Len(line) < 30 THEN [keep |-> FALSE, code |-> "", val |-> NilParallax]
    ELSE
    LET skip  == [keep |-> FALSE, code |-> "", val |-> NilParallax]
        tl    == TrimSpace(Slice(line, 4, 13))
        tc    == TrimSpace(Slice(line, 13, 21))
        tsn   == TrimSpace(Slice(line, 21, 30))
        lon   == ParseFloat(tl)
        rcos  == ParseFloat(tc)
        rsin  == ParseFloat(tsn)
    IN  IF Len(tl) # 0 /\ (~lon.ok \/ DecLess(lon.v, Zero)
                            \/ DecLeq(IntDec(360), lon.v))
        THEN skip
        ELSE IF Len(tc) # 0 /\ (~rcos.ok \/ DecLess(rcos.v, Zero)
                                 \/ DecLess(IntDec(1), rcos.v))
        THEN skip
        ELSE IF Len(tsn) # 0 /\ (~rsin.ok \/ DecLess(rsin.v, IntDec(0 - 1))
                                  \/ DecLess(IntDec(1), rsin.v))
        THEN skip
        ELSE
        LET longitude == IF Len(tl) = 0 THEN Zero ELSE lon.v
            rhoCosPhi == IF Len(tc) = 0 THEN BlankField ELSE TimesSf(rcos.v)
            rhoSinPhi == IF Len(tsn) = 0 THEN BlankField ELSE TimesSf(rsin.v)
        IN  [keep |-> TRUE, code |-> Slice(line, 0, 3),
             val  |-> IF IsZeroConst(rhoCosPhi) /\ IsZeroConst(rhoSinPhi)
                      THEN NilParallax
                      ELSE [isNil |-> FALSE,
                            Longitude |-> [v |-> longitude, unit |-> "deg_to_rad"],
                            RhoCosPhi |-> rhoCosPhi,
                            RhoSinPhi |-> rhoSinPhi]]

\* ocdMap[code] = val
MapStore(m, code, val) ==
    [c \in (DOMAIN m) \cup {code} |-> IF c = code THEN val ELSE m[c]]

RECURSIVE ObscodeLoop(_, _, _)
\* the loop over the lines, from line n on, with ocdMap = m
ObscodeLoop(lines, n, m) ==
    IF n > Len(lines) THEN m
    ELSE LET r == ObscodeLine(lines[n])
         IN  ObscodeLoop(lines, n + 1,
                         IF r.keep THEN MapStore(m, r.code, r.val) ELSE m)

\* ReadObscodeDat(r), for a reader that delivers the lines without error
ReadObscodeDat(lines) ==
    LET ocdMap == ObscodeLoop(lines, 1, <<>>)
    IN  IF DOMAIN ocdMap = {}
        THEN [res |-> "err", err |-> "Obscode data unreadable", m |-> <<>>]
        ELSE [res |-> "ok", err |-> "", m |-> ocdMap]

MaxOcdLines == 2

OcdCodes == {"000", "250"}

\* columns 4-12: a longitude, a blank field, one just too large, a heading
OcdLongitudes == {"  0.0000 ", "         ", "360.0000 ", "Long.    "}

\* columns 13-20: rho cos phi, blank, zero, just too large
OcdCosines == {"0.62411 ", "        ", "0.00000 ", "1.00001 "}

\* columns 21-29: rho sin phi, blank, zero, just too small
OcdSines == {"+0.77873 ", "         ", "-0.00000 ", "-1.00001 "}

\* lines of obscode.dat: for each code, the longitude varied on a line
\* with parallax constants and the two constants varied on a line with a
\* longitude; and two lines that are too short: markup, and a line of 29
\* characters with all the fields of a site
OcdLines ==
    {c \o " " \o lo \o "0.62411 " \o "+0.77873 " \o "Name" :
        c \in OcdCodes, lo \in OcdLongitudes}
    \cup {c \o " " \o "  0.0000 " \o co \o si \o "Name" :
        c \in OcdCodes, co \in OcdCosines, si \in OcdSines}
    \cup {"<pre>", "000   0.0000 0.62411 +0.77873"}

OcdFiles == UNION {[1..n -> OcdLines] : n \in 0..MaxOcdLines}

ObscodeInit ==
    /\ NoStream
    /\ NoDates
    /\ NoLine
    /\ NoSat2
    /\ NoTracks
    /\ NoAgain
    /\ NoSteps
    /\ NoSplit
    /\ NoExport
    /\ ocd \in OcdFiles
    /\ pmap = NotRead

\* m, err := ReadObscodeDat(r)
ReadObscodeDatCall ==
    /\ pmap = NotRead
    /\ pmap' = ReadObscodeDat(ocd)
    /\ UNCHANGED ocd
    /\ UNCHANGED <<splitVars, dateVars, lineVars, sat2Vars, trackVars, againVars, stepVars,
                   chanVars, exportVars>>

ObscodeNext == ReadObscodeDatCall

ObscodeSpec == ObscodeInit /\ [][ObscodeNext]_vars


(***************************************************************************)
(* C31                                                                     *)
(***************************************************************************)
IsBlank(str) == \A k \in 1..Len(str) : SubSeq(str, k, k) = " "

\* the number written in a field, a blank field counting as 0
FieldValue(str) == IF IsBlank(str) THEN Zero ELSE ParseFloat(TrimSpace(str)).v

IsNumber(str) == ParseFloat(TrimSpace(str)).ok

LongitudeValid(str) ==
    IsBlank(str) \/ (IsNumber(str) /\ DecLeq(Zero, FieldValue(str))
                                   /\ DecLess(FieldValue(str), IntDec(360)))

CosValid(str) ==
    IsBlank(str) \/ (IsNumber(str) /\ DecLeq(Zero, FieldValue(str))
                                   /\ DecLeq(FieldValue(str), IntDec(1)))

SinValid(str) ==
    IsBlank(str) \/ (IsNumber(str) /\ DecLeq(IntDec(0 - 1), FieldValue(str))
                                   /\ DecLeq(FieldValue(str), IntDec(1)))

\* a line of obscode.dat that yields a key
OcdValid(line) ==
    /\ Len(line) >= 30
    /\ LongitudeValid(SubSeq(line, 5, 13))
    /\ CosValid(SubSeq(line, 14, 21))
    /\ SinValid(SubSeq(line, 22, 30))

ValidAt == {n \in DOMAIN ocd : OcdValid(ocd[n])}

\* the last valid line of a code
LineOf(c) ==
    ocd[CHOOSE n \in ValidAt :
            /\ SubSeq(ocd[n], 1, 3) = c
            /\ \A k \in ValidAt : SubSeq(ocd[k], 1, 3) = c => k <= n]

\* q is the number x of Earth radii, scaled to AU
ScaledFrom(q, x) == q.v = x /\ (q.unit = "er_to_au" \/ x = Zero)

\* C31: after ReadObscodeDat, the keys of the map are exactly the codes of
\* the lines of length >= 30 whose longitude and parallax fields are valid
\* (blank, or a number in range); the value of a key is nil exactly when
\* rho cos phi and rho sin phi of its line are both zero or blank, and
\* otherwise a constant with both components scaled from Earth radii to AU;
\* and when no line yields a key, an error is returned and no map
C31_KeysAndNilValues ==
    pmap # NotRead =>
        LET codes == {SubSeq(ocd[n], 1, 3) : n \in ValidAt}
        IN  /\ (codes = {}) <=> (pmap.res = "err")
            /\ pmap.res = "err" => pmap.m = <<>> /\ pmap.err # ""
            /\ pmap.res = "ok" =>
                /\ DOMAIN pmap.m = codes
                /\ \A c \in codes :
                    LET line == LineOf(c)
                        cos  == FieldValue(SubSeq(line, 14, 21))
                        sin  == FieldValue(SubSeq(line, 22, 30))
                    IN  /\ pmap.m[c].isNil <=> (cos = Zero /\ sin = Zero)
                        /\ ~pmap.m[c].isNil =>
                            /\ ScaledFrom(pmap.m[c].RhoCosPhi, cos)
                            /\ ScaledFrom(pmap.m[c].RhoSinPhi, sin)

\* a map with a site without constants and a site with them
C31_Witness ==
    /\ pmap.res = "ok"
    /\ \E c, d \in DOMAIN pmap.m :
        /\ pmap.m[c].isNil
        /\ ~pmap.m[d].isNil
        /\ pmap.m[d].RhoCosPhi.v # Zero
        /\ pmap.m[d].RhoSinPhi.v # Zero

\* a site with one component zero and the other not
C31_WitnessOneZero ==
    /\ pmap.res = "ok"
    /\ \E c \in DOMAIN pmap.m :
        /\ ~pmap.m[c].isNil
        /\ pmap.m[c].RhoCosPhi.v # Zero
        /\ pmap.m[c].RhoSinPhi.v = Zero

\* one line of a site kept and one of 30 characters or more left out
C31_WitnessSkipped ==
    /\ pmap.res = "ok"
    /\ \E n \in DOMAIN ocd :
        Len(ocd[n]) >= 30 /\ SubSeq(ocd[n], 1, 3) \notin DOMAIN pmap.m

\* lines of 30 characters or more, and no key
C31_WitnessUnreadable ==
    /\ pmap.res = "err"
    /\ \E n \in DOMAIN ocd : Len(ocd[n]) >= 30


(***************************************************************************)
(* obs80.go: the unmarshaller of the export format, boolFunc               *)
(***************************************************************************)
HexDigits == "0123456789ABCDEF"

\* the byte of a character of a flag field: '0' is 48 and 'A' is 65
ByteOf(c) ==
    LET k == CHOOSE j \in 1..16 : SubSeq(HexDigits, j, j) = c
    IN  IF k <= 10 THEN 47 + k ELSE 54 + k

RECURSIVE Pow2(_)
Pow2(n) == IF n = 0 THEN 1 ELSE 2 * Pow2(n - 1)

\* the width of a byte: the operands of data[dd.start]&1<<n are bytes
ByteBits == 8

\* b & 1, on bytes
AndOne(b) == b % 2

\* b << n, on bytes: the bits shifted out of the byte are lost
ShiftLeft(b, n) == (b * Pow2(n)) % Pow2(ByteBits)

\* tFieldMap: the column where the field starts
tFieldStart(tfName) ==
    CASE tfName = "NEO"  -> 162
      [] tfName = "Km"   -> 161
      [] tfName = "Seen" -> 161
      [] tfName = "Crit" -> 161
      [] tfName = "PHA"  -> 161

\* the n of data[dd.start]&1<<n in boolFunc's case for the field
boolShift(tfName) ==
    CASE tfName = "NEO"  -> 11
      [] tfName = "Km"   -> 12
      [] tfName = "Seen" -> 13
      [] tfName = "Crit" -> 14
      [] tfName = "PHA"  -> 15

\* the value the function boolFunc returns for the field hands to SetBool:
\* data[dd.start]&1<<n != 0, where & and << have the same precedence and
\* group from the left
boolFunc(tfName, rec) ==
    ShiftLeft(AndOne(ByteOf(At(rec, tFieldStart(tfName)))), boolShift(tfName)) # 0

\* 40 blanks
Blanks40 == "                                        "

\* n blanks, n <= 160
Spaces(n) ==
    SubSeq(Blanks40 \o Blanks40 \o Blanks40 \o Blanks40, 1, n)

\* the flags of a record, columns 161-164: four hexadecimal digits, the two
\* that hold bits 8 to 15 varied
ExportFlags ==
    {SubSeq(HexDigits, i, i) \o SubSeq(HexDigits, j, j) \o low :
        i \in 1..16, j \in 1..16, low \in {"00", "09"}}

\* a record of the export format with these flags; the other columns,
\* which boolFunc does not read for these fields, are blank
ExportRecord(flags) == Spaces(160) \o " " \o flags \o Spaces(37)

ExportInit ==
    /\ NoStream
    /\ NoDates
    /\ NoLine
    /\ NoSat2
    /\ NoTracks
    /\ NoAgain
    /\ NoSteps
    /\ NoSplit
    /\ NoObscode
    /\ data \in {ExportRecord(f) : f \in ExportFlags}
    /\ orbit = NewOrbit

\* err := f(data), f the function NewExportUnmarshaler returned for a struct
\* with the bool fields NEO, Km, Seen, Crit and PHA: the field functions run
\* in the order of the fields, and none of them returns an error
UnmarshalCall ==
    /\ ~orbit.called
    /\ orbit' = [called |-> TRUE,
                 NEO  |-> boolFunc("NEO", data),
                 Km   |-> boolFunc("Km", data),
                 Seen |-> boolFunc("Seen", data),
                 Crit |-> boolFunc("Crit", data),
                 PHA  |-> boolFunc("PHA", data)]
    /\ UNCHANGED data
    /\ UNCHANGED <<splitVars, dateVars, lineVars, sat2Vars, trackVars, againVars, stepVars,
                   chanVars, ocdVars>>

ExportNext == UnmarshalCall

ExportSpec == ExportInit /\ [][ExportNext]_vars

(***************************************************************************)
(* C40                                                                     *)
(***************************************************************************)
RECURSIVE HexValue(_, _)
\* the number a string of hexadecimal digits writes
HexValue(str, acc) ==
    IF str = "" THEN acc
    ELSE HexValue(Tail(str),
                  16 * acc + (CHOOSE j \in 1..16 :
                                SubSeq(HexDigits, j, j) = SubSeq(str, 1, 1)) - 1)

\* the flag value of the record: the four hexadecimal digits of columns
\* 161-164
FlagValue == HexValue(SubSeq(data, 162, 165), 0)

BitSet(v, n) == (v \div Pow2(n)) % 2 = 1

\* C40: after the unmarshal function has run on a record, the bool fields
\* NEO, Km, Seen, Crit and PHA of the struct are true exactly when bits 11,
\* 12, 13, 14 and 15 of the record's flag value are set
C40_FlagBitsDecoded ==
    orbit.called =>
        /\ orbit.NEO  = BitSet(FlagValue, 11)
        /\ orbit.Km   = BitSet(FlagValue, 12)
        /\ orbit.Seen = BitSet(FlagValue, 13)
        /\ orbit.Crit = BitSet(FlagValue, 14)
        /\ orbit.PHA  = BitSet(FlagValue, 15)

\* what the code does instead: none of the five fields is ever true
C40_NeverTrue ==
    ~(orbit.NEO \/ orbit.Km \/ orbit.Seen \/ orbit.Crit \/ orbit.PHA)

====
